---- MODULE Spec2Model ----
(***************************************************************************)
(* A model of the agent-execution pipeline of breezerun's backend:         *)
(*   - AgentTaskRegistry      (app/api/websocket/task_registry.py)         *)
(*   - StreamingBuffer, MessagePersistenceService, MessageOrchestrator     *)
(*                            (app/services/*.py)                          *)
(*   - ReActAgent.run         (app/core/agent/executor.py)                 *)
(*   - ChatWebSocketHandler   (app/api/websocket/chat_handler.py)          *)
(*   - FileEditTool, tool registration and Tool.format_for_llm             *)
(*                            (app/core/agent/tools/*.py)                  *)
(*   - EventBus               (app/services/event_bus.py)                  *)
(*   - the projects API       (app/api/routes/projects.py)                 *)
(*   - StreamingManager       (app/api/websocket/streaming_manager.py)     *)
(* Each component has its own variables and its own specification; the     *)
(* actions of one component leave the variables of the others unchanged.   *)
(***************************************************************************)
EXTENDS Integers, Sequences, FiniteSets, TLC

(***************************************************************************)
(* Bounds of the model.                                                    *)
(***************************************************************************)
MaxTasks == 2
MaxClock == 1
MaxChunks == 2
OverflowChunks == 1003
MaxClientFrames == 2
MaxStreamItems == 2
MaxToolCalls == 1
MaxTaskCancels == 1
MaxAgentItems == 4
MaxAgentToolCalls == 2
MaxTurnChunks == 1
MaxToolFailures == 1
MaxFileLen == 3
MaxPatternLen == 2
MaxEdits == 2
MaxTurns == 3
MaxEmits == 2
MaxSubscriptions == 3
MaxCancelFrames == 2
MaxProjects == 2
MaxParameters == 2
MaxResumeIndex == 2
MaxStartupSubscriptions == 2
MaxRegistrations == 2

(***************************************************************************)
(* Identifiers.                                                            *)
(***************************************************************************)
Sessions == {"s1", "s2"}
TaskIds == 1..MaxTasks
NoTask == [task |-> 0]
Statuses == {"running", "completed", "error", "cancelled"}

VARIABLES
    \* ---- AgentTaskRegistry ----
    reg_tasks,       \* self._tasks: session id -> AgentTask record, or NoTask
    handles,         \* the asyncio.Task objects: state and whether cancel() was called
    cancel_events,   \* the asyncio.Event passed with each task: is it set
    clock,           \* datetime.utcnow(), in seconds
    reg_returned     \* the latest call of a method of the registry and what it returned

regVars == <<reg_tasks, handles, cancel_events, clock, reg_returned>>

VARIABLES
    \* ---- StreamingBuffer ----
    max_buffer_size, \* StreamingBuffer.max_buffer_size
    buffers,         \* StreamingBuffer._buffers: message id -> list of chunks
    stream_metadata, \* StreamingBuffer._metadata: message id -> StreamMetadata
    \* ---- MessageOrchestrator ----
    active_streams,  \* MessageOrchestrator._active_streams: message id -> session id
    \* ---- MessagePersistenceService ----
    db_session,      \* the rows as the service's AsyncSession sees them (flushed)
    db_committed,    \* the rows as committed to the database
    next_message,    \* how many message ids uuid4() has handed out
    \* ---- what the orchestrator passed to EventBus.emit ----
    chunk_events,    \* message id -> payloads of its CHUNK events, in order
    last_emitted,    \* the events emitted by the latest orchestrator call, in order
    orch_cancelled   \* message ids whose stream cancel_streaming has cancelled

orchVars == <<max_buffer_size, buffers, stream_metadata, active_streams, db_session,
              db_committed, next_message, chunk_events, last_emitted, orch_cancelled>>

VARIABLES
    \* ---- ChatWebSocketHandler and ReActAgent, one of each per connection ----
    handlers,        \* the handler objects and the locals of the turn in progress
    agents,          \* the generators agent.run returned, with the events they yielded
    sockets,         \* the websockets: inbound queue, frames delivered, client gone
    turns,           \* the number of the turn in progress and what the client did in it
    chat_messages,   \* the Message rows the handlers committed, in order
    chat_actions,    \* the AgentAction rows the handlers committed, in order
    turn_log,        \* the turns that are over
    task_cancels,    \* how often a handler task was cancelled from outside
    send_raises      \* whether send_json raises after the client has gone: "yes", "no",
                     \* or "unknown" as long as no client has gone

chatVars == <<handlers, agents, sockets, turns, chat_messages, chat_actions, turn_log,
              task_cancels, send_raises>>

VARIABLES
    \* ---- FileEditTool and the file of the sandbox it edits ----
    files,           \* the files of the container: path -> content, or FileMissing
    edit_input,      \* the arguments the LLM passes to file_edit: path, old_content, new_content
    edit_results,    \* the ToolResults of the calls of file_edit, with the file as each call left it
    \* ---- the tool registry of a turn ----
    chat_sessions,   \* the ChatSession rows: session id -> environment_type
    enabled_tools,   \* agent_config.enabled_tools
    turn_tools,      \* session id -> names of the tools of the turn in progress, or NoTurn
    tool_registries  \* the tool registries built so far, one per turn, in order

toolVars == <<files, edit_input, edit_results, chat_sessions, enabled_tools, turn_tools,
              tool_registries>>

VARIABLES
    \* ---- EventBus ----
    subscribers,     \* EventBus._subscribers: event -> list of (priority, handler)
    event_queue,     \* EventBus._event_queue
    processing,      \* EventBus._processing
    event_history,   \* EventBus._event_history, each event with the handlers subscribed to it
                     \* when it was emitted
    drain_tasks,     \* the tasks emit created for _process_events, in order of creation
    dispatch_log     \* the handler invocations: when each started and how it ended

busVars == <<subscribers, event_queue, processing, event_history, drain_tasks, dispatch_log>>

VARIABLES
    \* ---- projects API and its database tables ----
    projects,              \* table projects: id -> row, NoProject where there is none
    agent_configurations,  \* table agent_configurations: the set of rows
    project_sessions,      \* table chat_sessions: id -> project_id, 0 where there is none
    containers,            \* the chat sessions that have a sandbox container
    volumes,               \* the projects that have a volume
    project_directories,   \* the projects that have a directory of files
    next_id,               \* the ids handed out so far: of projects, of configurations
    response,              \* the last response of the API: route, project id, status code
    \* ---- Tool.format_for_llm ----
    tool,                  \* the tool whose schema is formatted
    llm_function,          \* what format_for_llm returned
    parsed_tool            \* the tool definition read back from llm_function

VARIABLES
    \* ---- StreamingManager ----
    manager_streams,    \* StreamingManager.active_streams: the dict, in insertion order
    cleanup_callbacks,  \* StreamingManager.cleanup_callbacks: session id -> callback
    registrations,      \* how many times register_stream has been called
    cleanup_tasks,      \* the handle_disconnect coroutines and the cleanup worker
    callback_log        \* the invocations of cleanup callbacks, in order

managerVars == <<manager_streams, cleanup_callbacks, registrations, cleanup_tasks,
                 callback_log>>

projVars == <<projects, agent_configurations, project_sessions, containers, volumes,
              project_directories, next_id, response>>

schemaVars == <<tool, llm_function, parsed_tool>>

apiVars == <<projVars, schemaVars, managerVars>>

vars == <<regVars, orchVars, chatVars, toolVars, busVars, apiVars>>

(***************************************************************************)
(* AgentTaskRegistry                                                       *)
(***************************************************************************)
\* what a method of the registry returned: the bool of cancel_task (1 for True),
\* the count of cleanup_old_tasks together with its max_age_seconds; the other
\* methods return None
Returned(call, max_age_seconds, value) ==
    [call |-> call, max_age_seconds |-> max_age_seconds, value |-> value]
ReturnedNone == Returned("None", 0, 0)

InitRegistry ==
    /\ reg_tasks = [s \in Sessions |-> NoTask]
    /\ handles = [t \in TaskIds |-> [state |-> "unborn", cancel_requested |-> FALSE]]
    /\ cancel_events = [t \in TaskIds |-> FALSE]
    /\ clock = 0
    /\ reg_returned = ReturnedNone

\* asyncio.Task.done()
TaskDone(t) == handles[t].state = "done"

\* the AgentTask dataclass built by register_task
AgentTask(task, session_id) ==
    [task |-> task, session_id |-> session_id, message_id |-> task,
     cancel_event |-> task, created_at |-> clock, status |-> "running"]

\* register_task without the cancellation of the task it replaces
register_task_no_cancel(session_id, task) ==
    /\ handles[task].state = "unborn"
    /\ handles' = [handles EXCEPT ![task].state = "pending"]
    /\ cancel_events' = cancel_events
    /\ reg_tasks' = [reg_tasks EXCEPT ![session_id] = AgentTask(task, session_id)]
    /\ reg_returned' = ReturnedNone
    /\ UNCHANGED clock

\* AgentTaskRegistry.register_task: the caller has just created `task`
register_task(session_id, task) ==
    /\ handles[task].state = "unborn"
    /\ LET old == reg_tasks[session_id]
           live == old # NoTask /\ ~TaskDone(old.task)
       IN /\ cancel_events' =
                IF live THEN [cancel_events EXCEPT ![old.cancel_event] = TRUE]
                        ELSE cancel_events
          /\ handles' =
                [t \in TaskIds |->
                    IF t = task THEN [handles[t] EXCEPT !.state = "pending"]
                    ELSE IF live /\ t = old.task
                         THEN [handles[t] EXCEPT !.cancel_requested = TRUE]
                         ELSE handles[t]]
    /\ reg_tasks' = [reg_tasks EXCEPT ![session_id] = AgentTask(task, session_id)]
    /\ reg_returned' = ReturnedNone
    /\ UNCHANGED clock

\* AgentTaskRegistry.cancel_task
cancel_task(session_id) ==
    /\ IF reg_tasks[session_id] # NoTask /\ ~TaskDone(reg_tasks[session_id].task)
       THEN LET agent_task == reg_tasks[session_id]
            IN /\ cancel_events' = [cancel_events EXCEPT ![agent_task.cancel_event] = TRUE]
               /\ handles' = [handles EXCEPT ![agent_task.task].cancel_requested = TRUE]
               /\ reg_tasks' = [reg_tasks EXCEPT ![session_id].status = "cancelled"]
               /\ reg_returned' = Returned("cancel_task", 0, 1)
       ELSE /\ UNCHANGED <<cancel_events, handles, reg_tasks>>
            /\ reg_returned' = Returned("cancel_task", 0, 0)
    /\ UNCHANGED clock

\* AgentTaskRegistry.mark_completed
mark_completed(session_id, status) ==
    /\ IF reg_tasks[session_id] # NoTask
       THEN reg_tasks' = [reg_tasks EXCEPT ![session_id].status = status]
       ELSE UNCHANGED reg_tasks
    /\ reg_returned' = ReturnedNone
    /\ UNCHANGED <<handles, cancel_events, clock>>

\* AgentTaskRegistry.cleanup_task
cleanup_task(session_id) ==
    /\ reg_tasks' = [reg_tasks EXCEPT ![session_id] = NoTask]
    /\ reg_returned' = ReturnedNone
    /\ UNCHANGED <<handles, cancel_events, clock>>

\* to_remove without the test of task.done()
to_remove_old(max_age_seconds) ==
    {s \in Sessions :
        /\ reg_tasks[s] # NoTask
        /\ clock - reg_tasks[s].created_at > max_age_seconds}

\* the entries cleanup_old_tasks collects in to_remove
to_remove(max_age_seconds) ==
    {s \in Sessions :
        /\ reg_tasks[s] # NoTask
        /\ clock - reg_tasks[s].created_at > max_age_seconds
        /\ TaskDone(reg_tasks[s].task)}

\* AgentTaskRegistry.cleanup_old_tasks
cleanup_old_tasks(max_age_seconds) ==
    /\ reg_tasks' = [s \in Sessions |->
                        IF s \in to_remove(max_age_seconds) THEN NoTask ELSE reg_tasks[s]]
    /\ reg_returned' = Returned("cleanup_old_tasks", max_age_seconds,
                                Cardinality(to_remove(max_age_seconds)))
    /\ UNCHANGED <<handles, cancel_events, clock>>

\* the event loop finishes a registered task: its coroutine returned, or a
\* requested cancellation was delivered
TaskFinishes(t) ==
    /\ handles[t].state = "pending"
    /\ handles' = [handles EXCEPT ![t].state = "done"]
    /\ UNCHANGED <<reg_tasks, cancel_events, clock, reg_returned>>

\* time passes
Tick ==
    /\ clock < MaxClock
    /\ clock' = clock + 1
    /\ UNCHANGED <<reg_tasks, handles, cancel_events, reg_returned>>

(***************************************************************************)
(* StreamingBuffer                                                         *)
(***************************************************************************)
MsgIds == {1, 2}
Chunks == {"a", "bc"}

\* default of StreamingBuffer.__init__(max_buffer_size)
DefaultMaxBufferSize == 10000
\* the tail add_chunk keeps on overflow: self._buffers[message_id][-1000:]
KeepLast == 1000
\* "".join(chunks), joining the two halves of a long list
RECURSIVE Join(_)
Join(chunks) ==
    IF chunks = <<>> THEN ""
    ELSE IF Len(chunks) = 1 THEN chunks[1]
    ELSE LET h == Len(chunks) \div 2
         IN Join(SubSeq(chunks, 1, h)) \o Join(SubSeq(chunks, h + 1, Len(chunks)))

\* the Python slice seq[-n:]
LastN(seq, n) == IF Len(seq) <= n THEN seq ELSE SubSeq(seq, Len(seq) - n + 1, Len(seq))

\* f with key k removed: dict.pop(k, None)
Pop(f, k) == [x \in (DOMAIN f) \ {k} |-> f[x]]
\* f with f[k] = v: dict assignment
Put(f, k, v) == [x \in (DOMAIN f) \cup {k} |-> IF x = k THEN v ELSE f[x]]

\* StreamMetadata()
StreamMetadata == [chunk_count |-> 0, total_bytes |-> 0, is_streaming |-> TRUE, error |-> "none"]

\* StreamingBuffer.add_chunk: the chunk list of message_id afterwards
buffer_after_add(message_id, chunk) ==
    IF Len(buffers[message_id]) >= max_buffer_size
    THEN Append(LastN(buffers[message_id], KeepLast), chunk)
    ELSE Append(buffers[message_id], chunk)

\* StreamingBuffer.get_complete_content
get_complete_content(message_id) ==
    IF message_id \notin DOMAIN buffers THEN "" ELSE Join(buffers[message_id])

\* StreamingBuffer.get_chunks_since for chunk_index >= 0: the slice
\* self._buffers[message_id][chunk_index:]
get_chunks_since(message_id, chunk_index) ==
    IF message_id \notin DOMAIN buffers THEN <<>>
    ELSE SubSeq(buffers[message_id], chunk_index + 1, Len(buffers[message_id]))

\* StreamingBuffer.end_streaming: the dictionary it returns ({} without metadata)
end_streaming_result(message_id) ==
    IF message_id \notin DOMAIN stream_metadata
    THEN [present |-> FALSE, chunk_count |-> -1, error |-> "absent"]
    ELSE [present |-> TRUE, chunk_count |-> stream_metadata[message_id].chunk_count,
          error |-> "none"]

\* StreamingBuffer.end_streaming: the metadata map afterwards
metadata_after_end(message_id) ==
    IF message_id \notin DOMAIN stream_metadata THEN stream_metadata
    ELSE [stream_metadata EXCEPT ![message_id].is_streaming = FALSE,
                                 ![message_id].error = "none"]

(***************************************************************************)
(* MessagePersistenceService                                               *)
(***************************************************************************)
\* message_metadata={} of a new row; a key that is not in the dictionary is "absent"
EmptyMetadata == [cancelled |-> "absent", error |-> "absent", chunk_count |-> -1]

\* Message(...) as create_message builds it
NewMessage(session_id, role, initial_content) ==
    [session_id |-> session_id, role |-> role, content |-> initial_content,
     metadata |-> EmptyMetadata, is_complete |-> FALSE]

\* message.message_metadata.update(metadata) with the dictionary complete_streaming passes
UpdateMetadata(row_metadata, md, cancelled) ==
    [cancelled |-> IF cancelled THEN "true" ELSE "false",
     error |-> IF md.present THEN md.error ELSE row_metadata.error,
     chunk_count |-> IF md.present THEN md.chunk_count ELSE row_metadata.chunk_count]

\* what the database does during save_complete_message: the commit raises, or
\* the refresh after the commit raises
SaveFaults == {"ok", "commit_fails", "refresh_fails"}
MarkFaults == {"ok", "commit_fails"}

\* MessagePersistenceService.save_complete_message: the rows afterwards and
\* whether it raised PersistenceError (it never returns False)
save_complete_message(message_id, final_content, md, cancelled, fault) ==
    IF message_id \notin DOMAIN db_session \/ fault = "commit_fails"
    THEN \* ValueError("not found") or a failing commit: rollback, raise
         [session |-> db_committed, committed |-> db_committed, raised |-> TRUE]
    ELSE LET row == [db_session[message_id] EXCEPT
                        !.content = final_content,
                        !.metadata = UpdateMetadata(@, md, cancelled),
                        !.is_complete = TRUE]
             saved == [db_session EXCEPT ![message_id] = row]
         IN \* committed; the refresh reads the row back; the length check
            [session |-> saved, committed |-> saved,
             raised |-> fault = "refresh_fails" \/ Len(row.content) # Len(final_content)]

\* MessagePersistenceService.mark_message_incomplete on the rows db
mark_message_incomplete(db, message_id, fault) ==
    IF message_id \notin DOMAIN db.session
    THEN db
    ELSE IF fault = "commit_fails"
    THEN [db EXCEPT !.session = db.committed]
    ELSE LET row == [db.session[message_id] EXCEPT
                        !.is_complete = FALSE,
                        !.metadata.error = "Streaming interrupted"]
             marked == [db.session EXCEPT ![message_id] = row]
         IN [db EXCEPT !.session = marked, !.committed = marked]

(***************************************************************************)
(* MessageOrchestrator                                                     *)
(***************************************************************************)
Event(type, message_id) == [type |-> type, message_id |-> message_id]

\* StreamingBuffer(max_buffer_size), MessageOrchestrator.__init__
InitOrchestrator(limits) ==
    /\ max_buffer_size \in limits
    /\ buffers = <<>>
    /\ stream_metadata = <<>>
    /\ active_streams = <<>>
    /\ db_session = <<>>
    /\ db_committed = <<>>
    /\ next_message = 0
    /\ chunk_events = [m \in MsgIds |-> <<>>]
    /\ last_emitted = <<>>
    /\ orch_cancelled = {}

\* MessageOrchestrator.start_streaming
start_streaming(session_id) ==
    /\ next_message + 1 \in MsgIds
    /\ LET message_id == next_message + 1
       IN /\ next_message' = message_id
          /\ db_session' = Put(db_session, message_id, NewMessage(session_id, "assistant", ""))
          /\ buffers' = Put(buffers, message_id, <<>>)
          /\ stream_metadata' = Put(stream_metadata, message_id, StreamMetadata)
          /\ active_streams' = Put(active_streams, message_id, session_id)
          /\ last_emitted' = <<Event("START", message_id)>>
    /\ UNCHANGED <<max_buffer_size, db_committed, chunk_events, orch_cancelled>>

\* MessageOrchestrator.process_chunk
process_chunk(message_id, chunk) ==
    /\ IF message_id \notin DOMAIN buffers
       THEN \* add_chunk raises ValueError
            /\ last_emitted' = <<Event("ERROR", message_id)>>
            /\ UNCHANGED <<buffers, stream_metadata, chunk_events>>
       ELSE /\ buffers' = [buffers EXCEPT ![message_id] = buffer_after_add(message_id, chunk)]
            /\ stream_metadata' = [stream_metadata EXCEPT
                    ![message_id].chunk_count = @ + 1,
                    ![message_id].total_bytes = @ + Len(chunk)]
            /\ chunk_events' = [chunk_events EXCEPT ![message_id] = Append(@, chunk)]
            /\ last_emitted' = <<Event("CHUNK", message_id)>>
    /\ UNCHANGED <<max_buffer_size, active_streams, db_session, db_committed,
                   next_message, orch_cancelled>>

\* MessageOrchestrator.process_action
process_action(message_id, status) ==
    /\ last_emitted' =
          IF status = "streaming" THEN <<Event("ACTION_STREAMING", message_id)>>
          ELSE IF status = "complete" THEN <<Event("ACTION_COMPLETE", message_id)>>
          ELSE <<>>
    /\ UNCHANGED <<max_buffer_size, buffers, stream_metadata, active_streams, db_session,
                   db_committed, next_message, chunk_events, orch_cancelled>>

\* MessageOrchestrator.process_observation
process_observation(message_id) ==
    /\ last_emitted' = <<Event("OBSERVATION", message_id)>>
    /\ UNCHANGED <<max_buffer_size, buffers, stream_metadata, active_streams, db_session,
                   db_committed, next_message, chunk_events, orch_cancelled>>

\* the body of MessageOrchestrator.complete_streaming
complete_streaming_body(message_id, cancelled, save_fault, mark_fault) ==
    LET complete_content == get_complete_content(message_id)
        md == end_streaming_result(message_id)
        saved == save_complete_message(message_id, complete_content, md, cancelled, save_fault)
    IN /\ stream_metadata' =
             IF saved.raised THEN metadata_after_end(message_id)
             ELSE Pop(metadata_after_end(message_id), message_id)
       /\ IF ~saved.raised
          THEN /\ db_session' = saved.session
               /\ db_committed' = saved.committed
               /\ buffers' = Pop(buffers, message_id)
               /\ active_streams' = Pop(active_streams, message_id)
               /\ last_emitted' = <<Event("PERSIST_START", message_id),
                                    Event("PERSIST_SUCCESS", message_id),
                                    Event("END", message_id)>>
          ELSE LET marked == mark_message_incomplete(
                                [session |-> saved.session, committed |-> saved.committed],
                                message_id, mark_fault)
               IN /\ db_session' = marked.session
                  /\ db_committed' = marked.committed
                  /\ UNCHANGED <<buffers, active_streams>>
                  /\ last_emitted' = <<Event("PERSIST_START", message_id),
                                       Event("PERSIST_FAILURE", message_id),
                                       Event("ERROR", message_id)>>
       /\ UNCHANGED <<max_buffer_size, next_message, chunk_events>>

\* the state of the orchestrator's collaborators after a statement of
\* complete_streaming, and the events emitted so far
Snapshot(statement, b, md, streams, session, committed, emitted) ==
    [statement |-> statement, buffers |-> b, stream_metadata |-> md,
     active_streams |-> streams, db_session |-> session, db_committed |-> committed,
     emitted |-> emitted]

\* complete_streaming that removes the buffer before it saves the message
complete_streaming_statements_cleanup_first(message_id, cancelled, save_fault, mark_fault) ==
    LET md == metadata_after_end(message_id)
        saved == save_complete_message(message_id, get_complete_content(message_id),
                                       end_streaming_result(message_id), cancelled, save_fault)
        start == <<Event("PERSIST_START", message_id)>>
    IN <<Snapshot("buffer.end_streaming", buffers, md, active_streams, db_session,
                  db_committed, <<>>),
         Snapshot("buffer.cleanup", Pop(buffers, message_id), Pop(md, message_id),
                  active_streams, db_session, db_committed, <<>>),
         Snapshot("emit PERSIST_START", Pop(buffers, message_id), Pop(md, message_id),
                  active_streams, db_session, db_committed, start),
         Snapshot("persistence.save_complete_message", Pop(buffers, message_id),
                  Pop(md, message_id), active_streams, saved.session, saved.committed, start),
         Snapshot("persistence.get_message", Pop(buffers, message_id),
                  Pop(md, message_id), active_streams, saved.session, saved.committed, start),
         Snapshot("active_streams.pop", Pop(buffers, message_id), Pop(md, message_id),
                  Pop(active_streams, message_id), saved.session, saved.committed, start),
         Snapshot("emit PERSIST_SUCCESS", Pop(buffers, message_id), Pop(md, message_id),
                  Pop(active_streams, message_id), saved.session, saved.committed,
                  Append(start, Event("PERSIST_SUCCESS", message_id))),
         Snapshot("emit END", Pop(buffers, message_id), Pop(md, message_id),
                  Pop(active_streams, message_id), saved.session, saved.committed,
                  start \o <<Event("PERSIST_SUCCESS", message_id), Event("END", message_id)>>)>>

\* the statements of MessageOrchestrator.complete_streaming in the order they
\* run, each with the state it leaves
complete_streaming_statements(message_id, cancelled, save_fault, mark_fault) ==
    LET complete_content == get_complete_content(message_id)
        md == metadata_after_end(message_id)
        saved == save_complete_message(message_id, complete_content,
                                       end_streaming_result(message_id), cancelled, save_fault)
        start == <<Event("PERSIST_START", message_id)>>
        try == <<Snapshot("buffer.end_streaming", buffers, md, active_streams, db_session,
                          db_committed, <<>>),
                 Snapshot("emit PERSIST_START", buffers, md, active_streams, db_session,
                          db_committed, start),
                 Snapshot("persistence.save_complete_message", buffers, md, active_streams,
                          saved.session, saved.committed, start)>>
        \* the read-back: get_message, and the comparison of the lengths
        mismatch == /\ message_id \in DOMAIN saved.session
                    /\ Len(saved.session[message_id].content) # Len(complete_content)
        marked == mark_message_incomplete(
                      [session |-> saved.session, committed |-> saved.committed],
                      message_id, mark_fault)
        failure == start \o <<Event("PERSIST_FAILURE", message_id)>>
        except(done) ==
            done \o
            <<Snapshot("persistence.mark_message_incomplete", buffers, md, active_streams,
                       marked.session, marked.committed, start),
              Snapshot("emit PERSIST_FAILURE", buffers, md, active_streams,
                       marked.session, marked.committed, failure),
              Snapshot("emit ERROR", buffers, md, active_streams, marked.session,
                       marked.committed, Append(failure, Event("ERROR", message_id)))>>
        read == Snapshot("persistence.get_message", buffers, md, active_streams,
                         saved.session, saved.committed, start)
        success == start \o <<Event("PERSIST_SUCCESS", message_id)>>
    IN IF saved.raised THEN except(try)
       ELSE IF mismatch THEN except(Append(try, read))
       ELSE try \o
            <<read,
              Snapshot("buffer.cleanup", Pop(buffers, message_id), Pop(md, message_id),
                       active_streams, saved.session, saved.committed, start),
              Snapshot("active_streams.pop", Pop(buffers, message_id), Pop(md, message_id),
                       Pop(active_streams, message_id), saved.session, saved.committed, start),
              Snapshot("emit PERSIST_SUCCESS", Pop(buffers, message_id), Pop(md, message_id),
                       Pop(active_streams, message_id), saved.session, saved.committed, success),
              Snapshot("emit END", Pop(buffers, message_id), Pop(md, message_id),
                       Pop(active_streams, message_id), saved.session, saved.committed,
                       Append(success, Event("END", message_id)))>>

\* MessageOrchestrator.complete_streaming, called by the producer of the stream
complete_streaming(message_id, save_fault, mark_fault) ==
    /\ complete_streaming_body(message_id, FALSE, save_fault, mark_fault)
    /\ UNCHANGED orch_cancelled

\* MessageOrchestrator.cancel_streaming
cancel_streaming(message_id, save_fault, mark_fault) ==
    IF message_id \notin DOMAIN active_streams
    THEN /\ last_emitted' = <<>>
         /\ UNCHANGED <<max_buffer_size, buffers, stream_metadata, active_streams, db_session,
                        db_committed, next_message, chunk_events, orch_cancelled>>
    ELSE /\ complete_streaming_body(message_id, TRUE, save_fault, mark_fault)
         /\ orch_cancelled' = orch_cancelled \cup {message_id}

(***************************************************************************)
(* ReActAgent.run (app/core/agent/executor.py): an async generator.  One   *)
(* resumption runs the generator from one suspension (the LLM stream, the  *)
(* tool) to the next; what it yields on the way goes to the consumer.      *)
(***************************************************************************)
Conns == {1, 2}

\* ReActAgent.__init__: max_iterations
DefaultMaxIterations == 10
\* the tools the chat handler registers (bash enabled, environment set up)
RegisteredTools == {"bash"}
has_tool(name) == name \in RegisteredTools

\* what the LLM stream can deliver: text, or a function_call delta
TextChunks == {"a", "b"}
FunctionCallChunks ==
    { [name |-> "bash", arguments |-> "{"],
      [name |-> "None", arguments |-> "\"command\":1}"],
      [name |-> "None", arguments |-> "}"],
      [name |-> "nope", arguments |-> "{}"] }

\* json.loads on the argument strings the deltas above can build
JSONDecodeError(s) == s \notin {"{}", "{\"command\":1}"}
json_loads(s) == IF s = "{\"command\":1}" THEN {<<"command", 1>>} ELSE {}
parse_args(function_args) ==
    IF JSONDecodeError(function_args) THEN {} ELSE json_loads(function_args)

\* the parameters without default of the execute method of a tool
RequiredParameters(name) == IF name = "bash" THEN {"command"} ELSE {}
\* tool.execute(**args): binding the keyword arguments raises TypeError
TypeError(name, args) ==
    \E parameter \in RequiredParameters(name) : \A pair \in args : pair[1] # parameter

AgentEvent(type, content, step) ==
    [type |-> type, content |-> content, partial_content |-> "None",
     tool |-> "None", args |-> {}, success |-> TRUE, step |-> step]

\* the generator before run() is called
NoAgent ==
    [apc |-> "idle", max_iterations |-> 0, cancel_event |-> "None", iteration |-> 0,
     full_response |-> "", function_name |-> "None", function_args |-> "",
     stream_items |-> 0, tool_runs |-> 0, events |-> <<>>]

\* run(user_message, history, cancel_event): up to the first cancel check
NewAgent(a, max_iterations, cancel_event) ==
    [a EXCEPT !.apc = IF max_iterations > 0 THEN "step_start" ELSE "exhausted",
              !.max_iterations = max_iterations, !.cancel_event = cancel_event,
              !.iteration = 0, !.full_response = "", !.function_name = "None",
              !.function_args = "", !.events = <<>>]

is_set(a) == a.cancel_event = "set"

Yield(a, evs, done) == [agent |-> a, evs |-> evs, done |-> done]

\* the iteration begins: the locals are reset and the LLM stream is opened
begin_step(a) ==
    Yield([a EXCEPT !.apc = "streaming", !.full_response = "",
                    !.function_name = "None", !.function_args = ""], <<>>, FALSE)

\* the top of the for loop without the cancel check
step_start_no_check(a) == begin_step(a)

\* top of the for loop: the cancel check, then the LLM call
step_start(a) ==
    IF is_set(a)
    THEN Yield([a EXCEPT !.apc = "returned"],
               <<AgentEvent("cancelled", "Response cancelled by user", a.iteration + 1)>>, TRUE)
    ELSE begin_step(a)

cancelled_during_streaming(a) ==
    Yield([a EXCEPT !.apc = "returned", !.stream_items = @ + 1],
          <<[AgentEvent("cancelled", "Response cancelled by user", a.iteration + 1)
               EXCEPT !.partial_content = a.full_response]>>, TRUE)

\* a text chunk arrives: cancel check, accumulate, yield chunk
stream_text(a, chunk) ==
    IF is_set(a) THEN cancelled_during_streaming(a)
    ELSE Yield([a EXCEPT !.full_response = @ \o chunk, !.stream_items = @ + 1],
               <<AgentEvent("chunk", chunk, a.iteration + 1)>>, FALSE)

\* a function_call delta arrives: cancel check, keep the name, append the arguments
stream_function_call(a, function_call) ==
    IF is_set(a) THEN cancelled_during_streaming(a)
    ELSE Yield([a EXCEPT !.function_name = IF function_call.name # "None"
                                            THEN function_call.name ELSE @,
                         !.function_args = @ \o function_call.arguments,
                         !.stream_items = @ + 1], <<>>, FALSE)

\* the end of the stream in a loop that takes any named tool for registered
stream_end_any_tool(a) ==
    IF a.function_name # "None"
    THEN Yield([a EXCEPT !.apc = "tool"],
               <<[AgentEvent("action", "Using tool", a.iteration + 1)
                    EXCEPT !.tool = a.function_name,
                           !.args = parse_args(a.function_args)]>>, FALSE)
    ELSE IF a.full_response # ""
    THEN Yield([a EXCEPT !.apc = "returned"], <<>>, TRUE)
    ELSE Yield([a EXCEPT !.apc = "returned"],
               <<AgentEvent("error", "Agent did not provide a response", a.iteration + 1)>>, TRUE)

\* the stream is exhausted: tool call, final answer, or no response
stream_end(a) ==
    IF a.function_name # "None" /\ has_tool(a.function_name)
    THEN Yield([a EXCEPT !.apc = "tool"],
               <<[AgentEvent("action", "Using tool", a.iteration + 1)
                    EXCEPT !.tool = a.function_name,
                           !.args = parse_args(a.function_args)]>>, FALSE)
    ELSE IF a.full_response # ""
    THEN Yield([a EXCEPT !.apc = "returned"], <<>>, TRUE)
    ELSE Yield([a EXCEPT !.apc = "returned"],
               <<AgentEvent("error", "Agent did not provide a response", a.iteration + 1)>>, TRUE)

\* except Exception: the LLM stream or the tool raised
agent_error(a) ==
    Yield([a EXCEPT !.apc = "returned"],
          <<AgentEvent("error", "Agent error", a.iteration + 1)>>, TRUE)

\* tool.execute returned, in a loop that yields no observation
tool_returns_no_observation(a, success) ==
    LET ran == [a EXCEPT !.tool_runs = @ + 1, !.iteration = @ + 1]
    IN IF a.iteration + 1 < a.max_iterations
       THEN Yield([ran EXCEPT !.apc = "step_start"], <<>>, FALSE)
       ELSE Yield([ran EXCEPT !.apc = "returned"],
                  <<AgentEvent("final_answer", "Task incomplete", a.max_iterations)>>, TRUE)

\* tool.execute returned, in a loop that ends without final_answer
tool_returns_no_final_answer(a, success) ==
    LET observation == [AgentEvent("observation", IF success THEN "output" ELSE "Error",
                                   a.iteration + 1) EXCEPT !.success = success]
        ran == [a EXCEPT !.tool_runs = @ + 1, !.iteration = @ + 1]
    IN Yield([ran EXCEPT !.apc = IF a.iteration + 1 < a.max_iterations
                                 THEN "step_start" ELSE "returned"],
             <<observation>>, a.iteration + 1 >= a.max_iterations)

\* tool.execute returned: observation, then next iteration or, after the last
\* one, the final_answer that follows the loop
tool_returns(a, success) ==
    LET observation == [AgentEvent("observation", IF success THEN "output" ELSE "Error",
                                   a.iteration + 1) EXCEPT !.success = success]
        ran == [a EXCEPT !.tool_runs = @ + 1, !.iteration = @ + 1]
    IN IF a.iteration + 1 < a.max_iterations
       THEN Yield([ran EXCEPT !.apc = "step_start"], <<observation>>, FALSE)
       ELSE Yield([ran EXCEPT !.apc = "returned"],
                  <<observation, AgentEvent("final_answer", "Task incomplete", a.max_iterations)>>,
                  TRUE)

\* await tool.execute(**args): the call raises TypeError, which the except
\* Exception of the loop turns into an error event, or the tool returns a result
tool_executes(a, success) ==
    IF TypeError(a.function_name, parse_args(a.function_args))
    THEN agent_error(a)
    ELSE tool_returns(a, success)

(***************************************************************************)
(* ChatWebSocketHandler (app/api/websocket/chat_handler.py), agent mode.   *)
(* One handler object per connection; handle_connection awaits each turn   *)
(* inline, so the next frame is received only when the turn is over.       *)
(***************************************************************************)
\* the chat session the clients ask for, and an id no chat session has
SessionIds == {"s1", "missing"}

\* ChatWebSocketHandler.__init__, and the locals of _handle_agent_response_impl
NewHandler ==
    [hpc |-> "unconnected", session_id |-> "None", cancel_event |-> "None",
     current_agent_task |-> "None", assistant_content |-> "", agent_actions |-> <<>>,
     has_error |-> FALSE, cancelled |-> FALSE]

\* the websocket: frames the client sent and not yet received, frames delivered
\* to the client, and whether the client has gone away
NewSocket == [inbox |-> <<>>, frames |-> <<>>, client_gone |-> FALSE, sent |-> 0]

\* bookkeeping of the turn in progress
NewTurn == [turn_no |-> 0, cancel_sent |-> FALSE, disconnected |-> FALSE]

Frame(type, turn) == [type |-> type, turn |-> turn]
Frames(types, turn) == [i \in 1..Len(types) |-> Frame(types[i], turn)]

InitChat ==
    /\ handlers = [c \in Conns |-> NewHandler]
    /\ agents = [c \in Conns |-> NoAgent]
    /\ sockets = [c \in Conns |-> NewSocket]
    /\ turns = [c \in Conns |-> NewTurn]
    /\ chat_messages = <<>>
    /\ chat_actions = <<>>
    /\ turn_log = {}
    /\ task_cancels = 0
    /\ send_raises = "unknown"

\* websocket.send_json raises once the client is gone (on servers that report it)
SendRaises(c) == sockets[c].client_gone /\ send_raises = "yes"

\* the frames that reach the client
Deliver(c, types) ==
    IF sockets[c].client_gone THEN sockets[c].frames
    ELSE sockets[c].frames \o Frames(types, turns[c].turn_no)

\* the async for body with an error branch that does not set has_error
handle_event_error_ignored(h, ev) ==
    CASE ev.type = "cancelled" ->
           [h |-> [h EXCEPT !.cancelled = TRUE], sends |-> <<"cancelled">>, break |-> TRUE]
      [] ev.type \in {"chunk", "final_answer"} ->
           [h |-> [h EXCEPT !.assistant_content = @ \o ev.content],
            sends |-> <<"chunk">>, break |-> FALSE]
      [] ev.type = "error" ->
           [h |-> h, sends |-> <<"error">>, break |-> TRUE]
      [] OTHER ->
           [h |-> h, sends |-> <<ev.type>>, break |-> FALSE]

\* the branch of the async for body taken for one event
handle_event(h, ev) ==
    CASE ev.type = "cancelled" ->
           [h |-> [h EXCEPT !.cancelled = TRUE], sends |-> <<"cancelled">>, break |-> TRUE]
      [] ev.type = "action" ->
           [h |-> [h EXCEPT !.agent_actions =
                      Append(@, [action_type |-> ev.tool, action_input |-> ev.args,
                                 action_output |-> "None", status |-> "pending"])],
            sends |-> <<"action">>, break |-> FALSE]
      [] ev.type = "observation" ->
           [h |-> IF h.agent_actions = <<>> THEN h
                  ELSE [h EXCEPT !.agent_actions[Len(h.agent_actions)] =
                           [@ EXCEPT !.action_output = ev.content,
                                     !.status = IF ev.success THEN "success" ELSE "error"]],
            sends |-> <<"observation">>, break |-> FALSE]
      [] ev.type \in {"chunk", "final_answer"} ->
           [h |-> [h EXCEPT !.assistant_content = @ \o ev.content],
            sends |-> <<"chunk">>, break |-> FALSE]
      [] ev.type = "error" ->
           [h |-> [h EXCEPT !.has_error = TRUE], sends |-> <<"error">>, break |-> TRUE]

\* the async for loop over the events one resumption of the generator yields
RECURSIVE handle_events(_, _)
handle_events(h, evs) ==
    IF evs = <<>> THEN [h |-> h, sends |-> <<>>, break |-> FALSE]
    ELSE LET first == handle_event(h, Head(evs))
         IN IF first.break THEN first
            ELSE LET rest == handle_events(first.h, Tail(evs))
                 IN [rest EXCEPT !.sends = first.sends \o @]

ActionEvents(evs) == Len(SelectSeq(evs, LAMBDA e : e.type = "action"))

\* what is remembered of a turn that is over
TurnRecord(c, a, outcome) ==
    [conn |-> c, turn |-> turns[c].turn_no, session_id |-> handlers[c].session_id,
     action_events |-> ActionEvents(a.events), outcome |-> outcome,
     loop_returned |-> a.apc = "returned",
     last_event |-> IF a.events = <<>> THEN "None" ELSE a.events[Len(a.events)].type,
     last_content |-> IF a.events = <<>> THEN "None" ELSE a.events[Len(a.events)].content,
     error_events |-> Len(SelectSeq(a.events, LAMBDA e : e.type = "error")),
     cancel_sent |-> turns[c].cancel_sent, disconnected |-> turns[c].disconnected]

\* the handler and everything of the turn, after the connection was torn down
Closed(c) == [NewHandler EXCEPT !.hpc = "closed", !.session_id = handlers[c].session_id]
EndOfTurn(c) == [turns[c] EXCEPT !.cancel_sent = FALSE, !.disconnected = FALSE]

\* rows of the assistant message and of its actions, as the epilogue adds them
AssistantMessage(c, h) ==
    [chat_session_id |-> h.session_id, role |-> "assistant",
     content |-> IF h.assistant_content # "" THEN h.assistant_content ELSE "Task completed.",
     tools_used |-> [i \in 1..Len(h.agent_actions) |-> h.agent_actions[i].action_type],
     conn |-> c, turn |-> turns[c].turn_no]

ActionRowsAllButLast(message_id, h) ==
    [i \in 1..(Len(h.agent_actions) - 1) |->
        [message_id |-> message_id, action_type |-> h.agent_actions[i].action_type,
         action_input |-> h.agent_actions[i].action_input,
         action_output |-> h.agent_actions[i].action_output,
         status |-> h.agent_actions[i].status]]

ActionRows(message_id, h) ==
    [i \in 1..Len(h.agent_actions) |->
        [message_id |-> message_id, action_type |-> h.agent_actions[i].action_type,
         action_input |-> h.agent_actions[i].action_input,
         action_output |-> h.agent_actions[i].action_output,
         status |-> h.agent_actions[i].status]]

\* the exception of a failed send leaves the turn: nothing is saved, the
\* generator is never resumed, handle_connection closes the socket
Abandon(c, a, outcome) ==
    /\ handlers' = [handlers EXCEPT ![c] = Closed(c)]
    /\ agents' = [agents EXCEPT ![c] = a]
    /\ turn_log' = turn_log \cup {TurnRecord(c, a, outcome)}
    /\ turns' = [turns EXCEPT ![c] = EndOfTurn(c)]
    /\ UNCHANGED <<sockets, chat_messages, chat_actions>>

\* the generator is gone with the turn; what the LLM and the tools were asked stays
Finished(a) == [NoAgent EXCEPT !.stream_items = a.stream_items, !.tool_runs = a.tool_runs]

\* after the async for: finally, then save the message with its actions in one
\* commit (or skip it), then the end frame
Epilogue(c, a, h, before, commit_ok) ==
    LET save == ~h.has_error /\ ~h.cancelled
        saved == save /\ commit_ok
        sends == IF saved THEN <<"end_message">>
                 ELSE IF save THEN <<"error", "end_error">>
                 ELSE IF h.cancelled THEN <<"end_cancelled">>
                 ELSE <<"end_error">>
        outcome == IF saved THEN "saved"
                   ELSE IF save THEN "save_failed"
                   ELSE IF h.cancelled THEN "cancelled"
                   ELSE "error"
    IN /\ chat_messages' = IF saved THEN Append(chat_messages, AssistantMessage(c, h))
                           ELSE chat_messages
       /\ chat_actions' = IF saved THEN chat_actions \o ActionRows(Len(chat_messages) + 1, h)
                          ELSE chat_actions
       /\ agents' = [agents EXCEPT ![c] = Finished(a)]
       /\ turn_log' = turn_log \cup {TurnRecord(c, a, outcome)}
       /\ turns' = [turns EXCEPT ![c] = EndOfTurn(c)]
       /\ IF SendRaises(c)
          THEN /\ handlers' = [handlers EXCEPT ![c] = Closed(c)]
               /\ UNCHANGED sockets
          ELSE /\ handlers' = [handlers EXCEPT ![c] =
                                 [NewHandler EXCEPT !.hpc = "receive",
                                                    !.session_id = h.session_id]]
               /\ sockets' = [sockets EXCEPT ![c].frames = Deliver(c, before \o sends)]

\* one resumption of agent.run inside the async for of the handler
TurnStep(c, r) ==
    LET a == [r.agent EXCEPT !.events = @ \o r.evs]
        he == handle_events(handlers[c], r.evs)
    IN /\ handlers[c].hpc = "turn"
       /\ IF he.sends # <<>> /\ SendRaises(c)
          THEN Abandon(c, a, "abandoned")
          ELSE IF r.done \/ he.break
          THEN \E commit_ok \in BOOLEAN : Epilogue(c, a, he.h, he.sends, commit_ok)
          ELSE /\ handlers' = [handlers EXCEPT ![c] = he.h]
               /\ agents' = [agents EXCEPT ![c] = a]
               /\ sockets' = [sockets EXCEPT ![c].frames = Deliver(c, he.sends)]
               /\ UNCHANGED <<turns, chat_messages, chat_actions, turn_log>>
       /\ UNCHANGED <<task_cancels, send_raises>>

\* the handler task is cancelled while it awaits in the async for
TaskCancelled(c) ==
    LET a == [agents[c] EXCEPT !.apc = "raised"]
        h == [handlers[c] EXCEPT !.cancelled = TRUE]
    IN /\ handlers[c].hpc = "turn"
       /\ task_cancels' = task_cancels + 1
       /\ IF SendRaises(c) THEN Abandon(c, a, "cancelled")
          ELSE Epilogue(c, a, h, <<"cancelled">>, TRUE)
       /\ UNCHANGED send_raises

\* handle_connection up to the message loop
handle_connection(c, session_id) ==
    /\ handlers[c].hpc = "unconnected"
    /\ IF session_id = "missing"
       THEN /\ handlers' = [handlers EXCEPT ![c] = [@ EXCEPT !.hpc = "closed"]]
            /\ sockets' = [sockets EXCEPT ![c].frames = Deliver(c, <<"error">>)]
       ELSE /\ handlers' = [handlers EXCEPT ![c] =
                              [@ EXCEPT !.hpc = "receive", !.session_id = session_id]]
            /\ UNCHANGED sockets
    /\ UNCHANGED <<agents, turns, chat_messages, chat_actions, turn_log,
                   task_cancels, send_raises>>

Receiving(c, type) ==
    /\ handlers[c].hpc = "receive"
    /\ sockets[c].inbox # <<>>
    /\ Head(sockets[c].inbox).type = type

\* a message frame: _handle_user_message up to the async for
ReceiveMessage(c) ==
    LET turn == turns[c].turn_no + 1
        user_message == [chat_session_id |-> handlers[c].session_id, role |-> "user",
                         content |-> "u", tools_used |-> <<>>, conn |-> c, turn |-> turn]
    IN /\ Receiving(c, "message")
       /\ chat_messages' = Append(chat_messages, user_message)
       /\ IF SendRaises(c)
          THEN /\ handlers' = [handlers EXCEPT ![c] = Closed(c)]
               /\ sockets' = [sockets EXCEPT ![c].inbox = Tail(@)]
               /\ UNCHANGED <<agents, turns>>
          ELSE /\ handlers' = [handlers EXCEPT ![c] =
                                 [@ EXCEPT !.hpc = "turn", !.cancel_event = "Event"]]
               /\ agents' = [agents EXCEPT ![c] =
                               NewAgent(@, DefaultMaxIterations, "clear")]
               /\ turns' = [turns EXCEPT ![c] = [@ EXCEPT !.turn_no = turn]]
               /\ sockets' = [sockets EXCEPT
                      ![c] = [@ EXCEPT !.inbox = Tail(@),
                                       !.frames = IF sockets[c].client_gone THEN @
                                                  ELSE @ \o Frames(<<"user_message_saved",
                                                                     "start">>, turn)]]
       /\ UNCHANGED <<chat_actions, turn_log, task_cancels, send_raises>>

\* a cancel frame: set the event and cancel the task if there are any, acknowledge
ReceiveCancel(c) ==
    LET frame == Head(sockets[c].inbox)
    IN /\ Receiving(c, "cancel")
       /\ agents' = [agents EXCEPT ![c] =
                       IF handlers[c].cancel_event # "None"
                       THEN [@ EXCEPT !.cancel_event = "set"] ELSE @]
       /\ IF SendRaises(c)
          THEN /\ handlers' = [handlers EXCEPT ![c] = Closed(c)]
               /\ sockets' = [sockets EXCEPT ![c].inbox = Tail(@)]
          ELSE /\ UNCHANGED handlers
               /\ sockets' = [sockets EXCEPT
                      ![c] = [@ EXCEPT !.inbox = Tail(@),
                                       !.frames = IF sockets[c].client_gone THEN @
                                                  ELSE Append(@, Frame("cancel_acknowledged",
                                                                       frame.turn))]]
       /\ UNCHANGED <<turns, chat_messages, chat_actions, turn_log, task_cancels, send_raises>>

\* receive_text raises WebSocketDisconnect
ReceiveDisconnect(c) ==
    /\ handlers[c].hpc = "receive"
    /\ sockets[c].inbox = <<>>
    /\ sockets[c].client_gone
    /\ handlers' = [handlers EXCEPT ![c] = Closed(c)]
    /\ UNCHANGED <<agents, sockets, turns, chat_messages, chat_actions, turn_log,
                   task_cancels, send_raises>>

\* the client
Connected(c) == handlers[c].hpc \in {"receive", "turn"} /\ ~sockets[c].client_gone
TurnTag(c) == IF handlers[c].hpc = "turn" THEN turns[c].turn_no ELSE 0

ClientSends(c, type) ==
    /\ Connected(c)
    /\ sockets' = [sockets EXCEPT ![c] = [@ EXCEPT !.inbox = Append(@, Frame(type, TurnTag(c))),
                                                   !.sent = @ + 1]]
    /\ turns' = [turns EXCEPT ![c].cancel_sent = @ \/ (type = "cancel" /\ TurnTag(c) > 0)]
    /\ UNCHANGED <<handlers, agents, chat_messages, chat_actions, turn_log,
                   task_cancels, send_raises>>

\* the client goes away; from the first time on it is settled what the server
\* does with a send to a client that is gone
ClientDisconnects(c) ==
    /\ Connected(c)
    /\ sockets' = [sockets EXCEPT ![c].client_gone = TRUE]
    /\ turns' = [turns EXCEPT ![c].disconnected = handlers[c].hpc = "turn"]
    /\ IF send_raises = "unknown" THEN send_raises' \in {"yes", "no"}
       ELSE UNCHANGED send_raises
    /\ UNCHANGED <<handlers, agents, chat_messages, chat_actions, turn_log, task_cancels>>

(***************************************************************************)
(* ChatWebSocketHandler, simple mode: the configuration enables no tools   *)
(* and _handle_user_message calls _handle_simple_response.                 *)
(***************************************************************************)
\* the turn is over: _handle_user_message returns to the message loop
SimpleReturns(c, sends, outcome) ==
    /\ turn_log' = turn_log \cup {TurnRecord(c, NoAgent, outcome)}
    /\ turns' = [turns EXCEPT ![c] = EndOfTurn(c)]
    /\ IF SendRaises(c)
       THEN /\ handlers' = [handlers EXCEPT ![c] = Closed(c)]
            /\ UNCHANGED sockets
       ELSE /\ handlers' = [handlers EXCEPT ![c] =
                              [NewHandler EXCEPT !.hpc = "receive",
                                                 !.session_id = handlers[c].session_id]]
            /\ sockets' = [sockets EXCEPT ![c].frames = Deliver(c, sends)]

\* a message frame: _handle_user_message and _handle_simple_response up to the
\* async for over generate_stream; create_llm_provider_with_db may raise
ReceiveSimpleMessage(c, provider_ok) ==
    LET turn == turns[c].turn_no + 1
        user_message == [chat_session_id |-> handlers[c].session_id, role |-> "user",
                         content |-> "u", tools_used |-> <<>>, conn |-> c, turn |-> turn]
        sends == IF provider_ok THEN <<"user_message_saved", "start">>
                 ELSE <<"user_message_saved", "error">>
    IN /\ Receiving(c, "message")
       /\ chat_messages' = Append(chat_messages, user_message)
       /\ IF SendRaises(c)
          THEN /\ handlers' = [handlers EXCEPT ![c] = Closed(c)]
               /\ sockets' = [sockets EXCEPT ![c].inbox = Tail(@)]
               /\ UNCHANGED turns
          ELSE /\ handlers' = [handlers EXCEPT ![c] =
                                 IF provider_ok
                                 THEN [@ EXCEPT !.hpc = "simple", !.cancel_event = "Event"]
                                 ELSE @]
               /\ turns' = [turns EXCEPT ![c] = [@ EXCEPT !.turn_no = turn]]
               /\ sockets' = [sockets EXCEPT
                      ![c] = [@ EXCEPT !.inbox = Tail(@),
                                       !.frames = IF sockets[c].client_gone THEN @
                                                  ELSE @ \o Frames(sends, turn)]]
       /\ UNCHANGED <<agents, chat_actions, turn_log, task_cancels, send_raises>>

\* generate_stream yields a chunk of text: the body of the async for
simple_chunk(c, chunk) ==
    /\ handlers[c].hpc = "simple"
    /\ IF handlers[c].cancel_event = "set"
       THEN SimpleReturns(c, <<"cancelled">>, "cancelled")
       ELSE IF SendRaises(c)
       THEN /\ handlers' = [handlers EXCEPT ![c] = Closed(c)]
            /\ turn_log' = turn_log \cup {TurnRecord(c, NoAgent, "abandoned")}
            /\ turns' = [turns EXCEPT ![c] = EndOfTurn(c)]
            /\ UNCHANGED sockets
       ELSE /\ handlers' = [handlers EXCEPT ![c].assistant_content = @ \o chunk]
            /\ sockets' = [sockets EXCEPT ![c].frames = Deliver(c, <<"chunk">>)]
            /\ UNCHANGED <<turns, turn_log>>
    /\ UNCHANGED <<agents, chat_messages, chat_actions, task_cancels, send_raises>>

\* generate_stream is exhausted: the message is saved and the end frame sent;
\* a commit that raises is reported by the except of _handle_user_message
simple_stream_ends(c, commit_ok) ==
    LET assistant_message ==
            [chat_session_id |-> handlers[c].session_id, role |-> "assistant",
             content |-> handlers[c].assistant_content, tools_used |-> <<>>,
             conn |-> c, turn |-> turns[c].turn_no]
    IN /\ handlers[c].hpc = "simple"
       /\ chat_messages' = IF commit_ok THEN Append(chat_messages, assistant_message)
                           ELSE chat_messages
       /\ IF commit_ok THEN SimpleReturns(c, <<"end_message">>, "saved")
          ELSE SimpleReturns(c, <<"error">>, "save_failed")
       /\ UNCHANGED <<agents, chat_actions, task_cancels, send_raises>>

\* generate_stream raises: the finally of _handle_simple_response, then the
\* except of _handle_user_message
simple_stream_raises(c) ==
    /\ handlers[c].hpc = "simple"
    /\ SimpleReturns(c, <<"error">>, "error")
    /\ UNCHANGED <<agents, chat_messages, chat_actions, task_cancels, send_raises>>

\* the handler task is cancelled while it awaits in the async for
simple_task_cancelled(c) ==
    /\ handlers[c].hpc = "simple"
    /\ task_cancels' = task_cancels + 1
    /\ SimpleReturns(c, <<"cancelled">>, "cancelled")
    /\ UNCHANGED <<agents, chat_messages, chat_actions, send_raises>>

(***************************************************************************)
(* FileEditTool (app/core/agent/tools/file_tools.py).  The content of a    *)
(* file and the old and the new content of an edit are sequences of        *)
(* characters.  app.core.sandbox is not part of the sources at hand: paths *)
(* are validated for traversal, read_file raises FileNotFoundError for a   *)
(* file that does not exist, write_file replaces the content of the file.  *)
(***************************************************************************)
Chars == {"a", "b"}

RECURSIVE StringsOfLen(_)
StringsOfLen(n) ==
    IF n = 0 THEN {<<>>}
    ELSE {Append(str, ch) : str \in StringsOfLen(n - 1), ch \in Chars}
Strings(max) == UNION {StringsOfLen(n) : n \in 0..max}

EditedPath == "/workspace/out/app.py"
AbsentPath == "/workspace/out/none.py"
TraversalPath == "../../etc/passwd"
ContainerPaths == {EditedPath, AbsentPath}
Paths == ContainerPaths \cup {TraversalPath}

NoFile == [exists |-> FALSE, content |-> <<>>]
File(content) == [exists |-> TRUE, content |-> content]

EditFaults == {"ok", "read_raises", "write_raises"}

validate_file_path(path) == path # TraversalPath

\* s[i:j] for 0 <= i <= j <= len(s)
Slice(str, i, j) == SubSeq(str, i + 1, j)

\* s.find(sub, start): the lowest offset from start on at which sub is found, or -1
str_find(str, sub, start) ==
    LET hits == {i \in start..(Len(str) - Len(sub)) : Slice(str, i, i + Len(sub)) = sub}
    IN IF hits = {} THEN -1 ELSE CHOOSE i \in hits : \A j \in hits : i <= j

\* sub in s
str_contains(str, sub) == str_find(str, sub, 0) # -1

\* s.count(sub): the number of non-overlapping occurrences, found left to right
RECURSIVE count_from(_, _, _)
count_from(str, sub, start) ==
    IF sub = <<>> THEN Len(str) - start + 1
    ELSE LET i == str_find(str, sub, start)
         IN IF i = -1 THEN 0 ELSE 1 + count_from(str, sub, i + Len(sub))

\* s.replace(old, new, 1): the first occurrence replaced
str_replace_first(str, old, new) ==
    LET i == str_find(str, old, 0)
    IN IF i = -1 THEN str
       ELSE Slice(str, 0, i) \o new \o Slice(str, i + Len(old), Len(str))

ToolResult(success, error) == [success |-> success, error |-> error]
EditReturn(result, fs) == [result |-> result, files |-> fs]

\* execute without the check that the old content is in the file
FileEditTool_execute_no_search(fs, path, old_content, new_content, fault) ==
    IF ~validate_file_path(path)
    THEN EditReturn(ToolResult(FALSE, "Invalid file path"), fs)
    ELSE IF fault = "read_raises"
    THEN EditReturn(ToolResult(FALSE, "Failed to edit file"), fs)
    ELSE IF ~fs[path].exists
    THEN EditReturn(ToolResult(FALSE, "File not found"), fs)
    ELSE LET current_content == fs[path].content
             count == count_from(current_content, old_content, 0)
             new_file_content == str_replace_first(current_content, old_content, new_content)
         IN IF count > 1
            THEN EditReturn(ToolResult(FALSE, "Content appears multiple times in file"), fs)
            ELSE IF fault = "write_raises"
            THEN EditReturn(ToolResult(FALSE, "Failed to edit file"), fs)
            ELSE EditReturn(ToolResult(TRUE, "None"),
                            [fs EXCEPT ![path] = File(new_file_content)])

\* FileEditTool.execute: the ToolResult and the files of the container afterwards
FileEditTool_execute(fs, path, old_content, new_content, fault) ==
    IF ~validate_file_path(path)
    THEN EditReturn(ToolResult(FALSE, "Invalid file path"), fs)
    ELSE IF fault = "read_raises"
    THEN EditReturn(ToolResult(FALSE, "Failed to edit file"), fs)
    ELSE IF ~fs[path].exists
    THEN EditReturn(ToolResult(FALSE, "File not found"), fs)
    ELSE LET current_content == fs[path].content
             count == count_from(current_content, old_content, 0)
             new_file_content == str_replace_first(current_content, old_content, new_content)
         IN IF ~str_contains(current_content, old_content)
            THEN EditReturn(ToolResult(FALSE, "Content to replace not found in file"), fs)
            ELSE IF count > 1
            THEN EditReturn(ToolResult(FALSE, "Content appears multiple times in file"), fs)
            ELSE IF fault = "write_raises"
            THEN EditReturn(ToolResult(FALSE, "Failed to edit file"), fs)
            ELSE EditReturn(ToolResult(TRUE, "None"),
                            [fs EXCEPT ![path] = File(new_file_content)])

\* the loop runs file_edit with the arguments of the LLM
file_edit(fault) ==
    LET ret == FileEditTool_execute(files, edit_input.path, edit_input.old_content,
                                    edit_input.new_content, fault)
    IN /\ Len(edit_results) < MaxEdits
       /\ files' = ret.files
       /\ edit_results' = Append(edit_results,
                                 [result |-> ret.result, fault |-> fault,
                                  before |-> files, after |-> ret.files])
       /\ UNCHANGED <<edit_input, chat_sessions, enabled_tools, turn_tools, tool_registries>>

(***************************************************************************)
(* The tool registry of a turn (chat_handler.py, _handle_user_message and  *)
(* _handle_agent_response_impl).  SetupEnvironmentTool is not part of the  *)
(* sources at hand: it assigns the environment type to the session.        *)
(***************************************************************************)
OperationalTools == {"bash", "file_read", "file_write", "file_edit", "search"}
ToolNames == OperationalTools \cup {"ast_grep"}
EnvironmentTypes == {"python3.11", "nodejs"}

NewChatSession == [exists |-> TRUE, environment_type |-> "None"]
NoTurn == [active |-> FALSE, tools |-> {}]

\* the registry with the setup tool next to the sandbox tools
register_tools_keeps_setup(session, config_tools) ==
    IF session.exists /\ session.environment_type # "None"
    THEN {name \in OperationalTools : name \in config_tools} \cup {"setup_environment"}
    ELSE {"setup_environment"}

\* the names of the tools in tool_registry once the registrations are done
register_tools(session, config_tools) ==
    IF session.exists /\ session.environment_type # "None"
    THEN {name \in OperationalTools : name \in config_tools}
    ELSE {"setup_environment"}

\* a user message of session s is handled: agent mode with a fresh registry if
\* any tool is enabled, a plain LLM response otherwise
start_turn(s) ==
    LET use_agent == enabled_tools # {}
        tools == IF use_agent THEN register_tools(chat_sessions[s], enabled_tools) ELSE {}
    IN /\ ~turn_tools[s].active
       /\ Len(tool_registries) < MaxTurns
       /\ turn_tools' = [turn_tools EXCEPT ![s] = [active |-> TRUE, tools |-> tools]]
       /\ tool_registries' = Append(tool_registries,
                                    [session_id |-> s, use_agent |-> use_agent,
                                     environment_type |-> chat_sessions[s].environment_type,
                                     tools |-> tools])
       /\ UNCHANGED <<files, edit_input, edit_results, chat_sessions, enabled_tools>>

\* the loop of the turn runs setup_environment
setup_environment(s, type) ==
    /\ turn_tools[s].active
    /\ "setup_environment" \in turn_tools[s].tools
    /\ chat_sessions' = [chat_sessions EXCEPT ![s].environment_type = type]
    /\ UNCHANGED <<files, edit_input, edit_results, enabled_tools, turn_tools, tool_registries>>

\* the turn is over
end_turn(s) ==
    /\ turn_tools[s].active
    /\ turn_tools' = [turn_tools EXCEPT ![s] = NoTurn]
    /\ UNCHANGED <<files, edit_input, edit_results, chat_sessions, enabled_tools, tool_registries>>

\* a container with one file, an edit of it, one enabled tool, no session with
\* an environment
InitTools ==
    /\ files = [path \in ContainerPaths |-> IF path = EditedPath THEN File(<<"a">>) ELSE NoFile]
    /\ edit_input = [path |-> EditedPath, old_content |-> <<"a">>, new_content |-> <<"b">>]
    /\ edit_results = <<>>
    /\ chat_sessions = [s \in Sessions |-> NewChatSession]
    /\ enabled_tools = {"bash"}
    /\ turn_tools = [s \in Sessions |-> NoTurn]
    /\ tool_registries = <<>>

(***************************************************************************)
(* EventBus (app/services/event_bus.py).  emit and subscribe never suspend; *)
(* a task running _process_events suspends only while it awaits a handler  *)
(* that is a coroutine function.                                           *)
(***************************************************************************)
BusEvents == {"streaming.chunk", "streaming.end"}
Priorities == {0, 1}

\* the handlers: plain functions and coroutine functions, some of which raise
Handlers == {"log", "log_raises", "send"}
iscoroutinefunction(handler) == handler = "send"
Raises(handler) == handler = "log_raises"

NoEvent == [event_type |-> "None", n |-> 0]
NoSubscriber == [priority |-> 0, handler |-> "None"]
Invocation(ev, sub, what) ==
    [n |-> ev.n, handler |-> sub.handler, priority |-> sub.priority, what |-> what]
Outcome(handler) == IF Raises(handler) THEN "raised" ELSE "returned"

InitBus ==
    /\ subscribers = [event \in BusEvents |-> <<>>]
    /\ event_queue = <<>>
    /\ processing = FALSE
    /\ event_history = <<>>
    /\ drain_tasks = <<>>
    /\ dispatch_log = <<>>

\* append, then sort by priority, highest first; the sort is stable
subscribe(event, handler, priority) ==
    LET list == subscribers[event]
        ahead == Len(SelectSeq(list, LAMBDA sub : sub.priority >= priority))
    IN /\ subscribers' = [subscribers EXCEPT ![event] =
              SubSeq(list, 1, ahead) \o <<[priority |-> priority, handler |-> handler]>>
                  \o SubSeq(list, ahead + 1, Len(list))]
       /\ UNCHANGED <<event_queue, processing, event_history, drain_tasks, dispatch_log>>

\* history, queue, and a new task for _process_events unless one is processing
emit(event) ==
    LET event_data == [event_type |-> event, n |-> Len(event_history) + 1]
    IN /\ event_history' = Append(event_history,
              [event_data |-> event_data,
               subscribed |-> {subscribers[event][i].handler : i \in DOMAIN subscribers[event]}])
       /\ event_queue' = Append(event_queue, event_data)
       /\ drain_tasks' = IF ~processing
                         THEN Append(drain_tasks, [pc |-> "created", event |-> NoEvent,
                                                   index |-> 0, sub |-> NoSubscriber])
                         ELSE drain_tasks
       /\ UNCHANGED <<subscribers, processing, dispatch_log>>

\* _process_events from the head of its for loop, about to take entry index of
\* the list of ev, or from the head of its while loop if ev is NoEvent, up to
\* where it awaits a coroutine or leaves the while loop
RECURSIVE process_events(_, _, _, _)
process_events(queue, ev, index, log) ==
    IF ev # NoEvent /\ index <= Len(subscribers[ev.event_type])
    THEN LET sub == subscribers[ev.event_type][index]
             started == Append(log, Invocation(ev, sub, "started"))
         IN IF iscoroutinefunction(sub.handler)
            THEN [queue |-> queue, log |-> started, pc |-> "awaiting", event |-> ev,
                  index |-> index, sub |-> sub]
            ELSE process_events(queue, ev, index + 1,
                     Append(started, Invocation(ev, sub, Outcome(sub.handler))))
    ELSE IF queue # <<>>
    THEN process_events(Tail(queue), Head(queue), 1, log)
    ELSE [queue |-> queue, log |-> log, pc |-> "done", event |-> NoEvent, index |-> 0,
          sub |-> NoSubscriber]

\* a task of _process_events without the finally clause that clears the flag
Drain_no_finally(t, ev, index, log, starting) ==
    LET stop == process_events(event_queue, ev, index, log)
    IN /\ event_queue' = stop.queue
       /\ dispatch_log' = stop.log
       /\ drain_tasks' = [drain_tasks EXCEPT ![t] =
              [pc |-> stop.pc, event |-> stop.event, index |-> stop.index, sub |-> stop.sub]]
       /\ processing' = (starting \/ processing)
       /\ UNCHANGED <<subscribers, event_history>>

\* task t runs _process_events from ev and index on until it suspends or ends;
\* the flag is set where the task starts and cleared by its finally clause
Drain(t, ev, index, log, starting) ==
    LET stop == process_events(event_queue, ev, index, log)
    IN /\ event_queue' = stop.queue
       /\ dispatch_log' = stop.log
       /\ drain_tasks' = [drain_tasks EXCEPT ![t] =
              [pc |-> stop.pc, event |-> stop.event, index |-> stop.index, sub |-> stop.sub]]
       /\ processing' = IF stop.pc = "done" THEN FALSE ELSE (starting \/ processing)
       /\ UNCHANGED <<subscribers, event_history>>

\* the event loop runs a task that emit created
drain_starts(t) ==
    /\ drain_tasks[t].pc = "created"
    /\ Drain(t, NoEvent, 0, dispatch_log, TRUE)

\* the coroutine a task awaits returns or raises, and the task goes on
drain_resumes(t) ==
    LET task == drain_tasks[t]
    IN /\ task.pc = "awaiting"
       /\ Drain(t, task.event, task.index + 1,
                Append(dispatch_log, Invocation(task.event, task.sub, Outcome(task.sub.handler))),
                FALSE)

(***************************************************************************)
(* Projects API (app/api/routes/projects.py)                               *)
(***************************************************************************)
ProjectIds == 1..MaxProjects
ProjectNames == {"a", "b"}
AgentTypes == {"code_agent", "custom"}
TemplateIds == {"python_dev", "no_such_template"}

NoProject == [name |-> "None"]
Project(name) == [name |-> name]

\* AgentConfiguration row; project_id is a foreign key to projects.id
AgentConfiguration(id, project_id, agent_type) ==
    [id |-> id, project_id |-> project_id, agent_type |-> agent_type]

Response(route, project_id, status_code) ==
    [route |-> route, project_id |-> project_id, status_code |-> status_code]

\* select(AgentConfiguration).where(AgentConfiguration.project_id == project_id)
ConfigsOf(project_id) == {config \in agent_configurations : config.project_id = project_id}

\* the chat sessions of a project
SessionsOf(project_id) == {s \in Sessions : project_sessions[s] = project_id}

InitProjects ==
    /\ projects = [p \in ProjectIds |-> NoProject]
    /\ agent_configurations = {}
    /\ project_sessions = [s \in Sessions |-> 0]
    /\ containers = {}
    /\ volumes = {}
    /\ project_directories = {}
    /\ next_id = [project |-> 0, config |-> 0]
    /\ response = Response("None", 0, 0)

\* create_project without the default agent configuration
create_project_no_config(project_data) ==
    /\ next_id.project + 1 \in ProjectIds
    /\ projects' = [projects EXCEPT ![next_id.project + 1] = Project(project_data.name)]
    /\ next_id' = [next_id EXCEPT !.project = @ + 1]
    /\ response' = Response("create_project", next_id.project + 1, 201)
    /\ UNCHANGED <<agent_configurations, project_sessions, containers, volumes,
                   project_directories>>

\* POST /projects
create_project(project_data) ==
    /\ next_id.project + 1 \in ProjectIds
    /\ LET project_id == next_id.project + 1
           agent_config == AgentConfiguration(next_id.config + 1, project_id, "code_agent")
       IN /\ projects' = [projects EXCEPT ![project_id] = Project(project_data.name)]
          /\ agent_configurations' = agent_configurations \cup {agent_config}
          /\ next_id' = [project |-> project_id, config |-> agent_config.id]
          /\ response' = Response("create_project", project_id, 201)
    /\ UNCHANGED <<project_sessions, containers, volumes, project_directories>>

\* PUT /projects/{project_id}
update_project(project_id, project_data) ==
    /\ IF projects[project_id] = NoProject
       THEN /\ response' = Response("update_project", project_id, 404)
            /\ UNCHANGED projects
       ELSE /\ projects' = [projects EXCEPT ![project_id].name = project_data.name]
            /\ response' = Response("update_project", project_id, 200)
    /\ UNCHANGED <<agent_configurations, project_sessions, containers, volumes,
                   project_directories, next_id>>

\* DELETE /projects/{project_id}: the row is deleted, and with it the rows whose
\* foreign key to it is declared ondelete CASCADE
delete_project(project_id) ==
    /\ IF projects[project_id] = NoProject
       THEN /\ response' = Response("delete_project", project_id, 404)
            /\ UNCHANGED <<projects, agent_configurations, project_sessions>>
       ELSE /\ projects' = [projects EXCEPT ![project_id] = NoProject]
            /\ agent_configurations' = agent_configurations \ ConfigsOf(project_id)
            /\ project_sessions' = [s \in Sessions |->
                   IF project_sessions[s] = project_id THEN 0 ELSE project_sessions[s]]
            /\ response' = Response("delete_project", project_id, 204)
    /\ UNCHANGED <<containers, volumes, project_directories, next_id>>

\* PUT /projects/{project_id}/agent-config
update_agent_config(project_id, config_data) ==
    /\ IF ConfigsOf(project_id) = {}
       THEN /\ response' = Response("update_agent_config", project_id, 404)
            /\ UNCHANGED agent_configurations
       ELSE /\ agent_configurations' =
                  {IF config.project_id = project_id
                   THEN [config EXCEPT !.agent_type = config_data.agent_type]
                   ELSE config : config \in agent_configurations}
            /\ response' = Response("update_agent_config", project_id, 200)
    /\ UNCHANGED <<projects, project_sessions, containers, volumes, project_directories,
                   next_id>>

\* app.core.agent.templates.get_template_config: the fields a template sets
NoTemplate == [agent_type |-> "None"]
get_template_config(template_id) ==
    IF template_id = "python_dev" THEN [agent_type |-> "python_dev"] ELSE NoTemplate

\* POST /projects/{project_id}/agent-config/apply-template/{template_id}
apply_agent_template(project_id, template_id) ==
    /\ IF \/ get_template_config(template_id) = NoTemplate
          \/ projects[project_id] = NoProject
          \/ ConfigsOf(project_id) = {}
       THEN /\ response' = Response("apply_agent_template", project_id, 404)
            /\ UNCHANGED agent_configurations
       ELSE /\ agent_configurations' =
                  {IF config.project_id = project_id
                   THEN [config EXCEPT !.agent_type = get_template_config(template_id).agent_type]
                   ELSE config : config \in agent_configurations}
            /\ response' = Response("apply_agent_template", project_id, 200)
    /\ UNCHANGED <<projects, project_sessions, containers, volumes, project_directories,
                   next_id>>

\* a chat session is created under a project (sessions API)
create_chat_session(project_id, s) ==
    /\ projects[project_id] # NoProject
    /\ project_sessions[s] = 0
    /\ s \notin containers
    /\ project_sessions' = [project_sessions EXCEPT ![s] = project_id]
    /\ response' = Response("create_chat_session", project_id, 201)
    /\ UNCHANGED <<projects, agent_configurations, containers, volumes, project_directories,
                   next_id>>

\* the sandbox of a chat session is set up: its container, and the volume and
\* the directory of files of its project
create_container(s) ==
    /\ project_sessions[s] # 0
    /\ s \notin containers
    /\ containers' = containers \cup {s}
    /\ volumes' = volumes \cup {project_sessions[s]}
    /\ project_directories' = project_directories \cup {project_sessions[s]}
    /\ UNCHANGED <<projects, agent_configurations, project_sessions, next_id, response>>

(***************************************************************************)
(* Tool schemas and Tool.format_for_llm (app/core/agent/tools)             *)
(***************************************************************************)
\* ToolParameter.default: None, or a value of some JSON kind
NoDefault == [kind |-> "None", value |-> ""]
Default(kind, value) == [kind |-> kind, value |-> value]

\* ToolParameter; descriptions are kept as tokens
ToolParameter(name, type, description, required, default) ==
    [name |-> name, type |-> type, description |-> description, required |-> required,
     default |-> default]

\* a Tool: its name, description and parameters properties
ToolOf(name, parameters) ==
    [name |-> name, description |-> name \o ".description", parameters |-> parameters]

Param(tool_name, name, type, required, default) ==
    ToolParameter(name, type, tool_name \o "." \o name, required, default)

BashTool == ToolOf("bash", <<
    Param("bash", "command", "string", TRUE, NoDefault),
    Param("bash", "workdir", "string", FALSE, Default("string", "/workspace/out")),
    Param("bash", "timeout", "number", FALSE, Default("number", "30"))>>)

FileReadTool == ToolOf("file_read", <<
    Param("file_read", "path", "string", TRUE, NoDefault)>>)

FileWriteTool == ToolOf("file_write", <<
    Param("file_write", "path", "string", TRUE, NoDefault),
    Param("file_write", "content", "string", TRUE, NoDefault)>>)

FileEditTool == ToolOf("file_edit", <<
    Param("file_edit", "path", "string", TRUE, NoDefault),
    Param("file_edit", "old_content", "string", TRUE, NoDefault),
    Param("file_edit", "new_content", "string", TRUE, NoDefault)>>)

SearchTool == ToolOf("search", <<
    Param("search", "mode", "string", FALSE, Default("string", "filename")),
    Param("search", "pattern", "string", TRUE, NoDefault),
    Param("search", "path", "string", FALSE, Default("string", "/workspace/out")),
    Param("search", "max_results", "number", FALSE, Default("number", "50")),
    Param("search", "file_pattern", "string", FALSE, Default("string", "*"))>>)

AstGrepTool == ToolOf("ast_search", <<
    Param("ast_search", "pattern", "string", TRUE, NoDefault),
    Param("ast_search", "language", "string", FALSE, NoDefault),
    Param("ast_search", "path", "string", FALSE, Default("string", "/workspace/out")),
    Param("ast_search", "max_results", "number", FALSE, Default("number", "50"))>>)

BuiltinTools == {BashTool, FileReadTool, FileWriteTool, FileEditTool, SearchTool, AstGrepTool}

\* other tools a subclass of Tool may declare: every list of up to MaxParameters
\* parameters over two names
DeclaredParameters ==
    {Param("tool", name, type, required, default) :
        name \in {"path", "timeout"}, type \in {"string", "number"},
        required \in BOOLEAN, default \in {NoDefault, Default("string", "/workspace/out")}}

DeclaredTools ==
    {ToolOf("tool", parameters) :
        parameters \in UNION {[1..n -> DeclaredParameters] : n \in 0..MaxParameters}}

NoTool == [name |-> "None"]
NoFunction == [type |-> "None"]

\* a dict in insertion order: its keys in order and the value of each key; a
\* key that is set again keeps its place and takes the new value
RECURSIVE dict_keys(_)
dict_keys(names) ==
    IF names = <<>> THEN <<>>
    ELSE LET front == dict_keys(SubSeq(names, 1, Len(names) - 1))
             name == names[Len(names)]
         IN IF \E i \in DOMAIN front : front[i] = name THEN front ELSE Append(front, name)

\* the entry of properties that format_for_llm builds for one parameter
property(param) ==
    [key \in {"type", "description"} \cup (IF param.default # NoDefault THEN {"default"} ELSE {}) |->
        IF key = "type" THEN Default("string", param.type)
        ELSE IF key = "description" THEN Default("string", param.description)
        ELSE param.default]

\* the list when format_for_llm takes every parameter as required
required_names_all(parameters) == [i \in DOMAIN parameters |-> parameters[i].name]

\* the list parameters_dict["required"]
RECURSIVE required_names(_)
required_names(parameters) ==
    IF parameters = <<>> THEN <<>>
    ELSE LET front == required_names(SubSeq(parameters, 1, Len(parameters) - 1))
             param == parameters[Len(parameters)]
         IN IF param.required THEN Append(front, param.name) ELSE front

\* Tool.format_for_llm
format_for_llm(self) ==
    LET names == [i \in DOMAIN self.parameters |-> self.parameters[i].name]
        last(name) == CHOOSE i \in DOMAIN names :
                         names[i] = name /\ \A j \in DOMAIN names : names[j] = name => j <= i
        properties == [keys |-> dict_keys(names),
                       items |-> [name \in {names[i] : i \in DOMAIN names} |->
                                     property(self.parameters[last(name)])]]
    IN [type |-> "function",
        function |-> [name |-> self.name,
                      description |-> self.description,
                      parameters |-> [type |-> "object",
                                      properties |-> properties,
                                      required |-> required_names(self.parameters)]]]

\* Tool.get_definition
get_definition(self) ==
    [name |-> self.name, description |-> self.description, parameters |-> self.parameters]

\* the tool definition a reader of the function-calling descriptor obtains
parse_function(descriptor) ==
    LET function == descriptor.function
        properties == function.parameters.properties
        required == function.parameters.required
        parameter(name) ==
            LET item == properties.items[name]
            IN ToolParameter(name, item["type"].value, item["description"].value,
                             \E i \in DOMAIN required : required[i] = name,
                             IF "default" \in DOMAIN item THEN item["default"] ELSE NoDefault)
    IN [name |-> function.name, description |-> function.description,
        parameters |-> [i \in DOMAIN properties.keys |-> parameter(properties.keys[i])]]

InitSchema(tools) ==
    /\ tool \in tools
    /\ llm_function = NoFunction
    /\ parsed_tool = NoTool

\* the registry formats the tool for the LLM (ToolRegistry.get_tools_for_llm)
formats_tool ==
    /\ llm_function = NoFunction
    /\ llm_function' = format_for_llm(tool)
    /\ UNCHANGED <<tool, parsed_tool>>

\* the descriptor is read back
parses_function ==
    /\ llm_function # NoFunction
    /\ parsed_tool = NoTool
    /\ parsed_tool' = parse_function(llm_function)
    /\ UNCHANGED <<tool, llm_function>>

(***************************************************************************)
(* StreamingManager                                                        *)
(*                                                                         *)
(* Every block under self._lock is free of awaits, so the lock is never    *)
(* contended and a coroutine runs from one await to the next in one step.  *)
(* The awaits are asyncio.sleep in handle_disconnect and in the worker and *)
(* `await callback()` in _run_cleanup.  content_length is only printed and *)
(* is left out.                                                            *)
(***************************************************************************)

\* for i in range(10) of handle_disconnect
DisconnectWaits == 10

NoCallback == 0

\* the entry of a session in active_streams; last_activity is kept as
\* whether it lies more than 60 seconds back
StreamInfo(session_id, message_id) ==
    [session_id |-> session_id, message_id |-> message_id, finalized |-> FALSE,
     stale |-> FALSE]

\* session_id in self.active_streams
Tracked(streams, session_id) ==
    \E i \in DOMAIN streams : streams[i].session_id = session_id

\* self.active_streams[session_id]
InfoOf(streams, session_id) ==
    streams[CHOOSE i \in DOMAIN streams : streams[i].session_id = session_id]

\* self.active_streams[session_id] = info: an existing key keeps its place
DictSet(streams, session_id, info) ==
    IF Tracked(streams, session_id)
    THEN [i \in DOMAIN streams |->
             IF streams[i].session_id = session_id THEN info ELSE streams[i]]
    ELSE Append(streams, info)

\* del self.active_streams[session_id], where it is there
DictDel(streams, session_id) ==
    SelectSeq(streams, LAMBDA info : info.session_id # session_id)

IdleDisconnect == [pc |-> "idle", i |-> 0, callback |-> NoCallback]
DoneDisconnect == [pc |-> "done", i |-> 0, callback |-> NoCallback]
SleepingWorker == [pc |-> "sleep", stuck_sessions |-> <<>>, session_id |-> "",
                   callback |-> NoCallback]

InitManager ==
    /\ manager_streams = <<>>
    /\ cleanup_callbacks = [s \in Sessions |-> NoCallback]
    /\ registrations = 0
    /\ cleanup_tasks = [disconnect |-> [s \in Sessions |-> IdleDisconnect],
                        worker |-> SleepingWorker]
    /\ callback_log = <<>>

\* the callback of the n-th registration is the coroutine function n
register_stream(session_id, message_id, cleanup_callback) ==
    /\ manager_streams' = DictSet(manager_streams, session_id,
                                  StreamInfo(session_id, message_id))
    /\ cleanup_callbacks' = [cleanup_callbacks EXCEPT ![session_id] = cleanup_callback]
    /\ registrations' = registrations + 1
    /\ UNCHANGED <<cleanup_tasks, callback_log>>

update_activity(session_id) ==
    /\ Tracked(manager_streams, session_id)
    /\ manager_streams' = DictSet(manager_streams, session_id,
                                  [InfoOf(manager_streams, session_id) EXCEPT !.stale = FALSE])
    /\ UNCHANGED <<cleanup_callbacks, registrations, cleanup_tasks, callback_log>>

\* sixty seconds pass without update_activity for the session
sixty_seconds_pass(session_id) ==
    /\ Tracked(manager_streams, session_id)
    /\ ~InfoOf(manager_streams, session_id).stale
    /\ manager_streams' = DictSet(manager_streams, session_id,
                                  [InfoOf(manager_streams, session_id) EXCEPT !.stale = TRUE])
    /\ UNCHANGED <<cleanup_callbacks, registrations, cleanup_tasks, callback_log>>

mark_finalized(session_id) ==
    /\ manager_streams' =
          IF Tracked(manager_streams, session_id)
          THEN DictSet(manager_streams, session_id,
                       [InfoOf(manager_streams, session_id) EXCEPT !.finalized = TRUE])
          ELSE manager_streams
    /\ UNCHANGED <<cleanup_callbacks, registrations, cleanup_tasks, callback_log>>

\* `await callback()` of _run_cleanup: the callback starts to run
CallbackStarts(by, session_id, callback) ==
    [by |-> by, session_id |-> session_id, callback |-> callback,
     message_id |-> IF Tracked(manager_streams, session_id)
                    THEN InfoOf(manager_streams, session_id).message_id ELSE 0,
     finalized |-> /\ Tracked(manager_streams, session_id)
                   /\ InfoOf(manager_streams, session_id).finalized]

\* the finally clause of _run_cleanup
RemoveFromTracking(session_id) ==
    /\ cleanup_callbacks' = [cleanup_callbacks EXCEPT ![session_id] = NoCallback]
    /\ manager_streams' = DictDel(manager_streams, session_id)

\* handle_disconnect up to its first await
handle_disconnect(session_id) ==
    /\ cleanup_tasks.disconnect[session_id].pc = "idle"
    /\ IF ~Tracked(manager_streams, session_id)
       THEN /\ cleanup_tasks' = [cleanup_tasks EXCEPT !.disconnect[session_id] = DoneDisconnect]
            /\ UNCHANGED <<manager_streams, cleanup_callbacks>>
       ELSE IF InfoOf(manager_streams, session_id).finalized
       THEN /\ RemoveFromTracking(session_id)
            /\ cleanup_tasks' = [cleanup_tasks EXCEPT !.disconnect[session_id] = DoneDisconnect]
       ELSE /\ cleanup_tasks' = [cleanup_tasks EXCEPT !.disconnect[session_id].pc = "sleep"]
            /\ UNCHANGED <<manager_streams, cleanup_callbacks>>
    /\ UNCHANGED <<registrations, callback_log>>

\* asyncio.sleep(1) of handle_disconnect returns: the check of the loop and,
\* after the last round, _run_cleanup up to `await callback()`
disconnect_wakes(session_id) ==
    LET task == cleanup_tasks.disconnect[session_id]
        callback == cleanup_callbacks[session_id]
    IN  /\ task.pc = "sleep"
        /\ IF /\ Tracked(manager_streams, session_id)
              /\ InfoOf(manager_streams, session_id).finalized
           THEN /\ RemoveFromTracking(session_id)
                /\ cleanup_tasks' = [cleanup_tasks EXCEPT !.disconnect[session_id] = DoneDisconnect]
                /\ UNCHANGED callback_log
           ELSE IF task.i + 1 < DisconnectWaits
           THEN /\ cleanup_tasks' = [cleanup_tasks EXCEPT !.disconnect[session_id].i = task.i + 1]
                /\ UNCHANGED <<manager_streams, cleanup_callbacks, callback_log>>
           ELSE IF callback # NoCallback
           THEN /\ callback_log' = Append(callback_log,
                                          CallbackStarts("handle_disconnect", session_id, callback))
                /\ cleanup_tasks' = [cleanup_tasks EXCEPT !.disconnect[session_id] =
                                        [pc |-> "callback", i |-> 0, callback |-> callback]]
                /\ UNCHANGED <<manager_streams, cleanup_callbacks>>
           ELSE /\ cleanup_tasks' = [cleanup_tasks EXCEPT !.disconnect[session_id] = DoneDisconnect]
                /\ UNCHANGED <<manager_streams, cleanup_callbacks, callback_log>>
        /\ UNCHANGED registrations

\* the callback awaited by handle_disconnect returns or raises: the finally clause
disconnect_cleanup_ends(session_id) ==
    /\ cleanup_tasks.disconnect[session_id].pc = "callback"
    /\ RemoveFromTracking(session_id)
    /\ cleanup_tasks' = [cleanup_tasks EXCEPT !.disconnect[session_id] = DoneDisconnect]
    /\ UNCHANGED <<registrations, callback_log>>

\* the sessions the worker finds stuck, in the order of the dict
StuckSessions(streams) ==
    LET stuck == SelectSeq(streams, LAMBDA info : ~info.finalized /\ info.stale)
    IN  [i \in DOMAIN stuck |-> stuck[i].session_id]

\* for session_id in stuck_sessions: await self._run_cleanup(session_id), up to
\* the first callback that is awaited; a session without callback is skipped
WorkerCleans(stuck_sessions) ==
    LET with_callback == {i \in DOMAIN stuck_sessions :
                             cleanup_callbacks[stuck_sessions[i]] # NoCallback}
    IN  IF with_callback = {}
        THEN /\ cleanup_tasks' = [cleanup_tasks EXCEPT !.worker = SleepingWorker]
             /\ UNCHANGED callback_log
        ELSE LET k == CHOOSE i \in with_callback : \A j \in with_callback : i <= j
                 session_id == stuck_sessions[k]
                 callback == cleanup_callbacks[session_id]
             IN  /\ callback_log' = Append(callback_log,
                                           CallbackStarts("_cleanup_worker", session_id, callback))
                 /\ cleanup_tasks' = [cleanup_tasks EXCEPT !.worker =
                        [pc |-> "callback",
                         stuck_sessions |-> SubSeq(stuck_sessions, k + 1, Len(stuck_sessions)),
                         session_id |-> session_id, callback |-> callback]]

\* asyncio.sleep(30) of the worker returns
worker_wakes ==
    /\ cleanup_tasks.worker.pc = "sleep"
    /\ StuckSessions(manager_streams) # <<>>
    /\ WorkerCleans(StuckSessions(manager_streams))
    /\ UNCHANGED <<manager_streams, cleanup_callbacks, registrations>>

\* the callback awaited by the worker returns or raises: the finally clause,
\* then the rest of stuck_sessions
worker_cleanup_ends ==
    LET session_id == cleanup_tasks.worker.session_id
        rest == cleanup_tasks.worker.stuck_sessions
        with_callback == {i \in DOMAIN rest :
                             rest[i] # session_id /\ cleanup_callbacks[rest[i]] # NoCallback}
    IN  /\ cleanup_tasks.worker.pc = "callback"
        /\ RemoveFromTracking(session_id)
        /\ IF with_callback = {}
           THEN /\ cleanup_tasks' = [cleanup_tasks EXCEPT !.worker = SleepingWorker]
                /\ UNCHANGED callback_log
           ELSE LET k == CHOOSE i \in with_callback : \A j \in with_callback : i <= j
                    callback == cleanup_callbacks[rest[k]]
                IN  /\ callback_log' = Append(callback_log,
                                              CallbackStarts("_cleanup_worker", rest[k], callback))
                    /\ cleanup_tasks' = [cleanup_tasks EXCEPT !.worker =
                           [pc |-> "callback",
                            stuck_sessions |-> SubSeq(rest, k + 1, Len(rest)),
                            session_id |-> rest[k], callback |-> callback]]
        /\ UNCHANGED registrations

InitApi == InitProjects /\ InitSchema({BashTool}) /\ InitManager

(***************************************************************************)
(* Specifications                                                          *)
(***************************************************************************)
\* the lowest task id not yet handed to the registry: a task just created
FreshTask(t) == handles[t].state = "unborn" /\ \A u \in TaskIds : u < t => handles[u].state # "unborn"

NextRegistry ==
    \/ \E s \in Sessions, t \in TaskIds : FreshTask(t) /\ register_task(s, t) /\ UNCHANGED <<orchVars, chatVars, toolVars, busVars, apiVars>>
    \/ \E s \in Sessions : cancel_task(s) /\ UNCHANGED <<orchVars, chatVars, toolVars, busVars, apiVars>>
    \/ \E s \in Sessions, st \in Statuses \ {"running"} : mark_completed(s, st) /\ UNCHANGED <<orchVars, chatVars, toolVars, busVars, apiVars>>
    \/ \E s \in Sessions : cleanup_task(s) /\ UNCHANGED <<orchVars, chatVars, toolVars, busVars, apiVars>>
    \/ \E a \in 0..MaxClock : cleanup_old_tasks(a) /\ UNCHANGED <<orchVars, chatVars, toolVars, busVars, apiVars>>
    \/ \E t \in TaskIds : TaskFinishes(t) /\ UNCHANGED <<orchVars, chatVars, toolVars, busVars, apiVars>>
    \/ Tick /\ UNCHANGED <<orchVars, chatVars, toolVars, busVars, apiVars>>

Init == InitRegistry /\ InitOrchestrator({DefaultMaxBufferSize}) /\ InitChat /\ InitTools /\ InitBus /\ InitApi

SpecRegistry == Init /\ [][NextRegistry]_vars

\* the number of CHUNK events emitted so far
RECURSIVE SumLen(_, _)
SumLen(f, S) == IF S = {} THEN 0
                ELSE LET x == CHOOSE y \in S : TRUE IN Len(f[x]) + SumLen(f, S \ {x})
ChunkCount == SumLen(chunk_events, MsgIds)

\* the database faults that can show in a call for message m: none where the
\* message has no row, and mark_message_incomplete runs only after a failed save
Faulty(m, sf, mf) ==
    /\ m \notin DOMAIN db_session => sf = "ok"
    /\ sf = "ok" => mf = "ok"

\* the orchestrator driven by any caller, for a bounded number of accepted chunks
NextOrchestrator ==
    \/ start_streaming("s1") /\ UNCHANGED <<regVars, chatVars, toolVars, busVars, apiVars>>
    \/ \E m \in MsgIds, c \in Chunks :
          /\ ChunkCount < MaxChunks
          /\ process_chunk(m, c) /\ UNCHANGED <<regVars, chatVars, toolVars, busVars, apiVars>>
    \/ \E m \in DOMAIN active_streams, st \in {"start", "streaming", "complete"} :
          process_action(m, st) /\ UNCHANGED <<regVars, chatVars, toolVars, busVars, apiVars>>
    \/ \E m \in DOMAIN active_streams : process_observation(m) /\ UNCHANGED <<regVars, chatVars, toolVars, busVars, apiVars>>
    \/ \E m \in MsgIds, sf \in SaveFaults, mf \in MarkFaults :
          /\ Faulty(m, sf, mf)
          /\ complete_streaming(m, sf, mf) /\ UNCHANGED <<regVars, chatVars, toolVars, busVars, apiVars>>
    \/ \E m \in MsgIds, sf \in SaveFaults, mf \in MarkFaults :
          /\ Faulty(m, sf, mf)
          /\ cancel_streaming(m, sf, mf) /\ UNCHANGED <<regVars, chatVars, toolVars, busVars, apiVars>>

SpecOrchestrator == Init /\ [][NextOrchestrator]_vars

\* one stream that is opened, fed and finalized, with any database fault
NotOrchestrator == UNCHANGED <<regVars, chatVars, toolVars, busVars, apiVars>>

NextFinalize ==
    \/ next_message = 0 /\ start_streaming("s1") /\ NotOrchestrator
    \/ \E c \in Chunks :
          /\ Len(chunk_events[1]) < MaxChunks
          /\ process_chunk(1, c) /\ NotOrchestrator
    \/ \E sf \in SaveFaults, mf \in MarkFaults :
          /\ Faulty(1, sf, mf)
          /\ complete_streaming(1, sf, mf) /\ NotOrchestrator
    \/ \E sf \in SaveFaults, mf \in MarkFaults :
          /\ Faulty(1, sf, mf)
          /\ cancel_streaming(1, sf, mf) /\ NotOrchestrator

SpecFinalize == Init /\ [][NextFinalize]_vars

\* one long stream into a buffer with a small configured limit, no database fault
InitOverflow == InitRegistry /\ InitOrchestrator({1}) /\ InitChat /\ InitTools /\ InitBus /\ InitApi

NextOverflow ==
    \/ next_message = 0 /\ start_streaming("s1") /\ UNCHANGED <<regVars, chatVars, toolVars, busVars, apiVars>>
    \/ /\ Len(chunk_events[1]) < OverflowChunks
       /\ process_chunk(1, "a") /\ UNCHANGED <<regVars, chatVars, toolVars, busVars, apiVars>>
    \/ /\ 1 \in DOMAIN active_streams
       /\ complete_streaming(1, "ok", "ok") /\ UNCHANGED <<regVars, chatVars, toolVars, busVars, apiVars>>

SpecOverflow == InitOverflow /\ [][NextOverflow]_vars

(***************************************************************************)
(* The chat specification: clients, handlers and their agent loops.        *)
(***************************************************************************)
ClientFrames == sockets[1].sent + sockets[2].sent
StreamItems == agents[1].stream_items + agents[2].stream_items
ToolRuns == agents[1].tool_runs + agents[2].tool_runs

\* what the LLM streams in the turns of the chat
ChatTextChunks == {"a"}
ChatFunctionCallChunks == {[name |-> "bash", arguments |-> "{\"command\":1}"]}

Others == UNCHANGED <<regVars, orchVars, toolVars, busVars, apiVars>>

Next ==
    \/ \E c \in Conns, s \in SessionIds :
          /\ c = 1
          /\ handle_connection(c, s) /\ Others
    \/ \E c \in Conns : ClientFrames < MaxClientFrames /\ ClientSends(c, "message") /\ Others
    \/ \E c \in Conns : ClientFrames < MaxClientFrames /\ ClientSends(c, "cancel") /\ Others
    \/ \E c \in Conns : ClientDisconnects(c) /\ Others
    \/ \E c \in Conns : ReceiveMessage(c) /\ Others
    \/ \E c \in Conns : ReceiveCancel(c) /\ Others
    \/ \E c \in Conns : ReceiveDisconnect(c) /\ Others
    \/ \E c \in Conns : task_cancels < MaxTaskCancels /\ TaskCancelled(c) /\ Others
    \/ \E c \in Conns : agents[c].apc = "step_start" /\ TurnStep(c, step_start(agents[c])) /\ Others
    \/ \E c \in Conns, chunk \in ChatTextChunks :
          /\ agents[c].apc = "streaming" /\ StreamItems < MaxStreamItems
          /\ TurnStep(c, stream_text(agents[c], chunk)) /\ Others
    \/ \E c \in Conns, function_call \in ChatFunctionCallChunks :
          /\ agents[c].apc = "streaming" /\ StreamItems < MaxStreamItems
          /\ TurnStep(c, stream_function_call(agents[c], function_call)) /\ Others
    \/ \E c \in Conns : agents[c].apc = "streaming" /\ TurnStep(c, stream_end(agents[c])) /\ Others
    \/ \E c \in Conns : agents[c].apc = "streaming" /\ TurnStep(c, agent_error(agents[c])) /\ Others
    \/ \E c \in Conns, success \in BOOLEAN :
          /\ agents[c].apc = "tool" /\ ToolRuns < MaxToolCalls
          /\ TurnStep(c, tool_executes(agents[c], success)) /\ Others

Spec == Init /\ [][Next]_vars

(***************************************************************************)
(* One turn at full length: one client, one message, an LLM that may ask   *)
(* for a tool in every step, tools that may fail or raise.                 *)
(***************************************************************************)
\* the function calls of the LLM in this turn: with arguments, and with none
TurnFunctionCallChunks ==
    ChatFunctionCallChunks \cup {[name |-> "bash", arguments |-> "{}"]}
TurnChunks == Len(handlers[1].assistant_content)
ToolFailures ==
    Len(SelectSeq(handlers[1].agent_actions, LAMBDA action : action.status = "error"))

NextTurn ==
    \/ handle_connection(1, "s1") /\ Others
    \/ sockets[1].sent = 0 /\ ClientSends(1, "message") /\ Others
    \/ ReceiveMessage(1) /\ Others
    \/ agents[1].apc = "step_start" /\ TurnStep(1, step_start(agents[1])) /\ Others
    \/ \E chunk \in ChatTextChunks :
          /\ agents[1].apc = "streaming" /\ agents[1].function_name = "None"
          /\ TurnChunks < MaxTurnChunks
          /\ TurnStep(1, stream_text(agents[1], chunk)) /\ Others
    \/ \E function_call \in TurnFunctionCallChunks :
          /\ agents[1].apc = "streaming" /\ agents[1].function_name = "None"
          /\ TurnStep(1, stream_function_call(agents[1], function_call)) /\ Others
    \/ agents[1].apc = "streaming" /\ TurnStep(1, stream_end(agents[1])) /\ Others
    \/ agents[1].apc = "streaming" /\ TurnStep(1, agent_error(agents[1])) /\ Others
    \/ \E success \in BOOLEAN :
          /\ agents[1].apc = "tool"
          /\ success \/ ToolFailures < MaxToolFailures
          /\ TurnStep(1, tool_executes(agents[1], success)) /\ Others

SpecTurn == Init /\ [][NextTurn]_vars

(***************************************************************************)
(* One connection whose client sends one message and then cancel frames.   *)
(***************************************************************************)
NextCancel ==
    \/ handle_connection(1, "s1") /\ Others
    \/ sockets[1].sent = 0 /\ ClientSends(1, "message") /\ Others
    \/ /\ sockets[1].sent \in 1..MaxCancelFrames
       /\ ClientSends(1, "cancel") /\ Others
    \/ ReceiveMessage(1) /\ Others
    \/ ReceiveCancel(1) /\ Others
    \/ agents[1].apc = "step_start" /\ TurnStep(1, step_start(agents[1])) /\ Others
    \/ \E chunk \in ChatTextChunks :
          /\ agents[1].apc = "streaming" /\ agents[1].function_name = "None"
          /\ TurnChunks < MaxTurnChunks
          /\ TurnStep(1, stream_text(agents[1], chunk)) /\ Others
    \/ \E function_call \in ChatFunctionCallChunks :
          /\ agents[1].apc = "streaming" /\ agents[1].function_name = "None"
          /\ ToolRuns < MaxToolCalls
          /\ TurnStep(1, stream_function_call(agents[1], function_call)) /\ Others
    \/ agents[1].apc = "streaming" /\ TurnStep(1, stream_end(agents[1])) /\ Others
    \/ agents[1].apc = "tool" /\ TurnStep(1, tool_executes(agents[1], TRUE)) /\ Others

SpecCancel == Init /\ [][NextCancel]_vars

\* the projects API, with chat sessions and their sandboxes coming and going
NotProjects == UNCHANGED <<regVars, orchVars, chatVars, toolVars, busVars, schemaVars, managerVars>>

NextProjects ==
    \/ \E name \in ProjectNames : create_project([name |-> name]) /\ NotProjects
    \/ \E p \in ProjectIds, name \in ProjectNames : update_project(p, [name |-> name]) /\ NotProjects
    \/ \E p \in ProjectIds : delete_project(p) /\ NotProjects
    \/ \E p \in ProjectIds, agent_type \in AgentTypes :
          update_agent_config(p, [agent_type |-> agent_type]) /\ NotProjects
    \/ \E p \in ProjectIds, t \in TemplateIds : apply_agent_template(p, t) /\ NotProjects
    \/ \E p \in ProjectIds, s \in Sessions : create_chat_session(p, s) /\ NotProjects
    \/ \E s \in Sessions : create_container(s) /\ NotProjects

SpecProjects == Init /\ [][NextProjects]_vars

\* every tool schema is formatted and read back
InitSchemas ==
    /\ InitRegistry /\ InitOrchestrator({DefaultMaxBufferSize}) /\ InitChat /\ InitTools
    /\ InitBus /\ InitProjects /\ InitManager
    /\ InitSchema(BuiltinTools \cup DeclaredTools)

NotSchemas == UNCHANGED <<regVars, orchVars, chatVars, toolVars, busVars, projVars, managerVars>>

NextSchemas ==
    \/ formats_tool /\ NotSchemas
    \/ parses_function /\ NotSchemas

SpecSchemas == InitSchemas /\ [][NextSchemas]_vars

(***************************************************************************)
(* The agent loop on its own: a consumer that takes every event, and a     *)
(* holder of the cancel event that may set it at any time.                 *)
(***************************************************************************)
IterationLimits == {1, 2, DefaultMaxIterations}

Consume(c, r) ==
    /\ agents' = [agents EXCEPT ![c] = [r.agent EXCEPT !.events = @ \o r.evs]]
    /\ UNCHANGED <<handlers, sockets, turns, chat_messages, chat_actions, turn_log,
                   task_cancels, send_raises>>

run(c, max_iterations, cancel_event) ==
    /\ agents[c].apc = "idle"
    /\ Consume(c, Yield(NewAgent(agents[c], max_iterations, cancel_event), <<>>, FALSE))

SetCancelEvent(c) ==
    /\ agents[c].apc \notin {"idle", "returned"}
    /\ agents[c].cancel_event = "clear"
    /\ Consume(c, Yield([agents[c] EXCEPT !.cancel_event = "set"], <<>>, FALSE))

NextAgent ==
    \/ \E n \in IterationLimits, e \in {"None", "clear"} : run(1, n, e) /\ Others
    \/ SetCancelEvent(1) /\ Others
    \/ agents[1].apc = "step_start" /\ Consume(1, step_start(agents[1])) /\ Others
    \/ \E chunk \in TextChunks :
          /\ agents[1].apc = "streaming" /\ StreamItems < MaxAgentItems
          /\ Consume(1, stream_text(agents[1], chunk)) /\ Others
    \/ \E function_call \in FunctionCallChunks :
          /\ agents[1].apc = "streaming" /\ StreamItems < MaxAgentItems
          /\ Consume(1, stream_function_call(agents[1], function_call)) /\ Others
    \/ agents[1].apc = "streaming" /\ Consume(1, stream_end(agents[1])) /\ Others
    \/ agents[1].apc = "streaming" /\ Consume(1, agent_error(agents[1])) /\ Others
    \/ \E success \in BOOLEAN :
          /\ agents[1].apc = "tool" /\ ToolRuns < MaxAgentToolCalls
          /\ Consume(1, tool_executes(agents[1], success)) /\ Others

SpecAgent == Init /\ [][NextAgent]_vars

\* the loop with a scheduler that runs it whenever it can go on by itself and an
\* LLM stream that ends; the call of a tool is awaited for as long as it takes
LoopGoesOn ==
    \/ agents[1].apc = "step_start" /\ Consume(1, step_start(agents[1])) /\ Others
    \/ agents[1].apc = "streaming" /\ Consume(1, stream_end(agents[1])) /\ Others

SpecAgentFair == Init /\ [][NextAgent]_vars /\ WF_vars(LoopGoesOn)

(***************************************************************************)
(* Several connections at once: clients that only send messages, an LLM    *)
(* that only streams text.                                                 *)
(***************************************************************************)
NextSessions ==
    \/ \E c \in Conns, s \in SessionIds :
          /\ c = 1 \/ handlers[1].hpc # "unconnected"
          /\ handle_connection(c, s) /\ Others
    \/ \E c \in Conns : ClientFrames < MaxClientFrames /\ ClientSends(c, "message") /\ Others
    \/ \E c \in Conns : ReceiveMessage(c) /\ Others
    \/ \E c \in Conns : agents[c].apc = "step_start" /\ TurnStep(c, step_start(agents[c])) /\ Others
    \/ \E c \in Conns, chunk \in ChatTextChunks :
          /\ agents[c].apc = "streaming" /\ StreamItems < MaxStreamItems
          /\ TurnStep(c, stream_text(agents[c], chunk)) /\ Others
    \/ \E c \in Conns : agents[c].apc = "streaming" /\ TurnStep(c, stream_end(agents[c])) /\ Others

SpecSessions == Init /\ [][NextSessions]_vars

(***************************************************************************)
(* file_edit with every file content and every argument of the bounds,     *)
(* called up to MaxEdits times in a row with the same arguments.           *)
(***************************************************************************)
InitFileEdit ==
    /\ InitRegistry /\ InitOrchestrator({DefaultMaxBufferSize}) /\ InitChat /\ InitBus /\ InitApi
    /\ \E content \in Strings(MaxFileLen) :
          files = [path \in ContainerPaths |->
                      IF path = EditedPath THEN File(content) ELSE NoFile]
    /\ \E path \in Paths, old_content, new_content \in Strings(MaxPatternLen) :
          edit_input = [path |-> path, old_content |-> old_content,
                        new_content |-> new_content]
    /\ edit_results = <<>>
    /\ chat_sessions = [s \in Sessions |-> NewChatSession]
    /\ enabled_tools = {"file_edit"}
    /\ turn_tools = [s \in Sessions |-> NoTurn]
    /\ tool_registries = <<>>

NextFileEdit ==
    \E fault \in EditFaults : file_edit(fault) /\ UNCHANGED <<regVars, orchVars, chatVars, busVars, apiVars>>

SpecFileEdit == InitFileEdit /\ [][NextFileEdit]_vars

(***************************************************************************)
(* The turns of two sessions with every set of enabled tools.              *)
(***************************************************************************)
InitEnvironment ==
    /\ InitRegistry /\ InitOrchestrator({DefaultMaxBufferSize}) /\ InitChat /\ InitBus /\ InitApi
    /\ files = [path \in ContainerPaths |-> NoFile]
    /\ edit_input = [path |-> EditedPath, old_content |-> <<>>, new_content |-> <<>>]
    /\ edit_results = <<>>
    /\ chat_sessions = [s \in Sessions |-> NewChatSession]
    /\ enabled_tools \in SUBSET ToolNames
    /\ turn_tools = [s \in Sessions |-> NoTurn]
    /\ tool_registries = <<>>

NextEnvironment ==
    \/ \E s \in Sessions : start_turn(s) /\ UNCHANGED <<regVars, orchVars, chatVars, busVars, apiVars>>
    \/ \E s \in Sessions, type \in EnvironmentTypes :
          setup_environment(s, type) /\ UNCHANGED <<regVars, orchVars, chatVars, busVars, apiVars>>
    \/ \E s \in Sessions : end_turn(s) /\ UNCHANGED <<regVars, orchVars, chatVars, busVars, apiVars>>

SpecEnvironment == InitEnvironment /\ [][NextEnvironment]_vars

(***************************************************************************)
(* The event bus with subscriptions and emits in any order.  The event     *)
(* loop runs every task that is ready, and every awaited handler ends.     *)
(***************************************************************************)
Subscriptions == Len(subscribers["streaming.chunk"]) + Len(subscribers["streaming.end"])
NotBus == UNCHANGED <<regVars, orchVars, chatVars, toolVars, apiVars>>

NextBus ==
    \/ \E event \in BusEvents, handler \in Handlers, priority \in Priorities :
          Subscriptions < MaxSubscriptions /\ subscribe(event, handler, priority) /\ NotBus
    \/ \E event \in BusEvents : Len(event_history) < MaxEmits /\ emit(event) /\ NotBus
    \/ \E t \in DOMAIN drain_tasks : drain_starts(t) /\ NotBus
    \/ \E t \in DOMAIN drain_tasks : drain_resumes(t) /\ NotBus

SpecBus ==
    /\ Init /\ [][NextBus]_vars
    /\ WF_vars(\E t \in DOMAIN drain_tasks : drain_starts(t) /\ NotBus)
    /\ WF_vars(\E t \in DOMAIN drain_tasks : drain_resumes(t) /\ NotBus)

\* the bus with its handlers subscribed at start-up, before the first emit,
\* each with the default priority of subscribe, and a stream of chunk events
NextEmit ==
    \/ \E event \in BusEvents, handler \in Handlers :
          /\ event_history = <<>> /\ Subscriptions < MaxStartupSubscriptions
          /\ subscribe(event, handler, 0) /\ NotBus
    \/ Len(event_history) < MaxEmits /\ emit("streaming.chunk") /\ NotBus
    \/ \E t \in DOMAIN drain_tasks : drain_starts(t) /\ NotBus
    \/ \E t \in DOMAIN drain_tasks : drain_resumes(t) /\ NotBus

SpecEmit ==
    /\ Init /\ [][NextEmit]_vars
    /\ WF_vars(\E t \in DOMAIN drain_tasks : drain_starts(t) /\ NotBus)
    /\ WF_vars(\E t \in DOMAIN drain_tasks : drain_resumes(t) /\ NotBus)

NotManager == UNCHANGED <<regVars, orchVars, chatVars, toolVars, busVars, projVars, schemaVars>>

\* the manager with streams registered, finalized and disconnected while the
\* cleanup worker runs
NextManager ==
    \/ \E s \in Sessions :
          /\ registrations < MaxRegistrations
          /\ register_stream(s, registrations + 1, registrations + 1) /\ NotManager
    \/ \E s \in Sessions : update_activity(s) /\ NotManager
    \/ \E s \in Sessions : sixty_seconds_pass(s) /\ NotManager
    \/ \E s \in Sessions : mark_finalized(s) /\ NotManager
    \/ \E s \in Sessions : handle_disconnect(s) /\ NotManager
    \/ \E s \in Sessions : disconnect_wakes(s) /\ NotManager
    \/ \E s \in Sessions : disconnect_cleanup_ends(s) /\ NotManager
    \/ worker_wakes /\ NotManager
    \/ worker_cleanup_ends /\ NotManager

SpecManager == Init /\ [][NextManager]_vars

\* one connection of a project without tools: every turn is a simple response
NextSimple ==
    \/ handle_connection(1, "s1") /\ Others
    \/ sockets[1].sent < MaxClientFrames /\ ClientSends(1, "message") /\ Others
    \/ ClientDisconnects(1) /\ Others
    \/ ReceiveDisconnect(1) /\ Others
    \/ task_cancels < MaxTaskCancels /\ simple_task_cancelled(1) /\ Others
    \/ simple_stream_raises(1) /\ Others
    \/ \E provider_ok \in BOOLEAN : ReceiveSimpleMessage(1, provider_ok) /\ Others
    \/ \E chunk \in ChatTextChunks :
          /\ Len(handlers[1].assistant_content) < MaxTurnChunks
          /\ simple_chunk(1, chunk) /\ Others
    \/ \E commit_ok \in BOOLEAN : simple_stream_ends(1, commit_ok) /\ Others

\* the handler receives what is in its inbox and the stream of the LLM ends
SimpleGoesOn ==
    \/ \E provider_ok \in BOOLEAN : ReceiveSimpleMessage(1, provider_ok) /\ Others
    \/ \E commit_ok \in BOOLEAN : simple_stream_ends(1, commit_ok) /\ Others

SpecSimple == Init /\ [][NextSimple]_vars /\ WF_vars(SimpleGoesOn)

(***************************************************************************)
(* Claims                                                                  *)
(***************************************************************************)
\* the message row is committed with is_complete = true
PersistedComplete(m) == m \in DOMAIN db_committed /\ db_committed[m].is_complete

\* C1: every assistant message persisted with isComplete=true has as content the
\* in-order concatenation of the payloads of all CHUNK events emitted for its id,
\* for any number of chunks processed between open and finalize.
C1_ContentIsAllChunks ==
    \A m \in MsgIds : PersistedComplete(m) => db_committed[m].content = Join(chunk_events[m])

\* the tasks the registry holds for session s with status running
RunningTasks(s) ==
    {t \in TaskIds : \E k \in Sessions :
        /\ reg_tasks[k] # NoTask
        /\ reg_tasks[k].task = t
        /\ reg_tasks[k].session_id = s
        /\ reg_tasks[k].status = "running"}

\* a step in which the registry entry of session s goes from one task to another
Replaces(s) ==
    /\ reg_tasks[s] # NoTask
    /\ reg_tasks'[s] # NoTask
    /\ reg_tasks'[s].task # reg_tasks[s].task

\* C2: after any interleaving of register, cancel, markCompleted, cleanup and gc
\* the registry holds at most one running task per session, and a register that
\* replaces a task that is not done sets that task's cancel event and cancels
\* its handle in the same step.
C2_OneRunningAndReplaceCancels ==
    [][\A s \in Sessions :
          /\ Cardinality(RunningTasks(s)) <= 1
          /\ Cardinality(RunningTasks(s)') <= 1
          /\ (Replaces(s) /\ ~TaskDone(reg_tasks[s].task)) =>
                /\ cancel_events'[reg_tasks[s].cancel_event]
                /\ handles'[reg_tasks[s].task].cancel_requested
                /\ reg_tasks'[s].status = "running"]_vars

\* C2 witness: a session's entry is a running task while an earlier task of the
\* session, still not done, has its cancel event set and its handle cancelled
C2_Witness ==
    \E s \in Sessions, t \in TaskIds :
        /\ reg_tasks[s] # NoTask
        /\ reg_tasks[s].status = "running"
        /\ t < reg_tasks[s].task
        /\ handles[t].state = "pending"
        /\ handles[t].cancel_requested
        /\ cancel_events[t]
        /\ \A k \in Sessions : reg_tasks[k] = NoTask \/ reg_tasks[k].task # t

\* the assistant messages the handlers saved for turn t
SavedFor(t) ==
    {m \in DOMAIN chat_messages :
        /\ chat_messages[m].role = "assistant"
        /\ chat_messages[m].conn = t.conn
        /\ chat_messages[m].turn = t.turn}

\* C9: after a cancelled turn no assistant message of the turn is returned by a
\* query filtered to is_complete = true; the draft is absent or carries
\* cancelled = true, after cancel_streaming as well as after a cancelled turn
\* of the chat handler.
C9_CancelledNotComplete ==
    /\ \A m \in orch_cancelled :
          /\ ~PersistedComplete(m)
          /\ (m \in DOMAIN db_committed => db_committed[m].metadata.cancelled = "true")
    /\ \A t \in turn_log : t.outcome = "cancelled" => SavedFor(t) = {}

\* C10: once a message is persisted complete, a process_chunk for its id emits no
\* CHUNK event, re-creates no buffer and leaves the persisted rows unchanged.
C10_NoChunkAfterComplete ==
    [][\A m \in MsgIds :
          PersistedComplete(m) =>
             /\ chunk_events'[m] = chunk_events[m]
             /\ (m \notin DOMAIN buffers => m \notin DOMAIN buffers')
             /\ (last_emitted' \in {<<Event("CHUNK", m)>>, <<Event("ERROR", m)>>} =>
                    /\ last_emitted' = <<Event("ERROR", m)>>
                    /\ db_committed' = db_committed)]_vars

\* an agent loop of connection c is between run() and its return
LoopRunning(c) ==
    /\ handlers[c].hpc = "turn"
    /\ agents[c].apc \in {"step_start", "streaming", "tool"}

\* C3: in no reachable state are two agent loops of the same session running.
C3_OneLoopPerSession ==
    \A c, d \in Conns :
        (c # d /\ handlers[c].session_id = handlers[d].session_id /\ LoopRunning(c))
            => ~LoopRunning(d)

\* the AgentAction rows that reference message m
ActionsOf(m) == {i \in DOMAIN chat_actions : chat_actions[i].message_id = m}

\* C4: for every assistant message the number of AgentAction rows that reference
\* it equals the number of action events the loop yielded in the message's turn.
C4_ActionsMatchEvents ==
    \A m \in DOMAIN chat_messages :
        chat_messages[m].role = "assistant" =>
            \E t \in turn_log :
                /\ m \in SavedFor(t)
                /\ Cardinality(ActionsOf(m)) = t.action_events

\* C4 witness: a saved assistant message whose turn yielded an action event
C4_Witness ==
    \E m \in DOMAIN chat_messages, t \in turn_log :
        /\ m \in SavedFor(t)
        /\ t.action_events > 0
        /\ ActionsOf(m) # {}

\* the frames of the given types delivered on connection c for turn n
FramesOf(c, types, n) ==
    {i \in DOMAIN sockets[c].frames :
        sockets[c].frames[i].type \in types /\ sockets[c].frames[i].turn = n}

\* connection c is open and the handler has received all the client sent
Quiet(c) ==
    /\ handlers[c].hpc = "receive"
    /\ sockets[c].inbox = <<>>
    /\ ~sockets[c].client_gone

\* C5: for every turn during which the client sent a cancel frame, the handler
\* sends exactly one cancel_acknowledged frame and ends the turn as cancelled:
\* with one cancelled frame, one end{cancelled:true} frame, or one of each.
C5_OneAckOneTerminal ==
    \A t \in turn_log :
        (t.cancel_sent /\ Quiet(t.conn)) =>
            /\ Cardinality(FramesOf(t.conn, {"cancel_acknowledged"}, t.turn)) = 1
            /\ Cardinality(FramesOf(t.conn, {"end_cancelled"}, t.turn)) <= 1
            /\ Cardinality(FramesOf(t.conn, {"cancelled"}, t.turn)) <= 1
            /\ FramesOf(t.conn, {"end_cancelled", "cancelled"}, t.turn) # {}

\* the handler of connection c takes a cancel frame, sent during a turn, off the socket
TakesCancel(c) ==
    /\ sockets[c].inbox # <<>>
    /\ Head(sockets[c].inbox).type = "cancel"
    /\ Head(sockets[c].inbox).turn > 0
    /\ sockets'[c].inbox = Tail(sockets[c].inbox)

\* C6: a cancel frame sent while a turn is in progress is handled while the
\* agent loop of that turn is still running, and sets the cancel event.
C6_CancelHandledDuringTurn ==
    [][\A c \in Conns :
          TakesCancel(c) =>
             /\ LoopRunning(c)
             /\ turns[c].turn_no = Head(sockets[c].inbox).turn
             /\ agents'[c].cancel_event = "set"]_vars

Last(seq) == seq[Len(seq)]

\* the loop yields exactly one event in this step, a cancelled event, and returns
YieldsCancelledAndReturns(a, b) ==
    /\ b.apc = "returned"
    /\ Len(b.events) = Len(a.events) + 1
    /\ SubSeq(b.events, 1, Len(a.events)) = a.events
    /\ Last(b.events).type = "cancelled"

\* a step in which the loop of connection c yields a cancelled event
YieldsCancelled(c) ==
    /\ Len(agents'[c].events) > Len(agents[c].events)
    /\ Last(agents'[c].events).type = "cancelled"

\* C7: with the cancel event set, the loop at the start of a step, or at the next
\* item received from the stream, yields cancelled as its last event and
\* returns; every cancelled event carries the text accumulated in its step as
\* partial content (none yet at the start of a step); nothing follows a
\* cancelled event, and no chunk is yielded by a step that began with the event set.
C7_CancelledCarriesPartial ==
    [][\A c \in Conns :
          LET a == agents[c]
              b == agents'[c]
          IN /\ (is_set(a) /\ a.apc = "step_start" /\ b # a) =>
                    YieldsCancelledAndReturns(a, b)
             /\ (is_set(a) /\ a.apc = "streaming" /\ b.stream_items > a.stream_items) =>
                    YieldsCancelledAndReturns(a, b)
             /\ YieldsCancelled(c) =>
                    Last(b.events).partial_content =
                        IF a.apc = "streaming" THEN a.full_response ELSE ""
             /\ (a.events # <<>> /\ Last(a.events).type = "cancelled") =>
                    b.events = a.events
             /\ (Len(b.events) > Len(a.events) /\ Last(b.events).type = "chunk") =>
                    ~is_set(a)]_vars

\* C7 as the loop does it: the cancelled event yielded during the stream carries
\* the text of the step as partial content, the one yielded at the start of a
\* step carries no partial content at all; the rest as above.
C7_CancelStopsLoop ==
    [][\A c \in Conns :
          LET a == agents[c]
              b == agents'[c]
          IN /\ (is_set(a) /\ a.apc = "step_start" /\ b # a) =>
                    /\ YieldsCancelledAndReturns(a, b)
                    /\ Last(b.events).partial_content = "None"
             /\ (is_set(a) /\ a.apc = "streaming" /\ b.stream_items > a.stream_items) =>
                    /\ YieldsCancelledAndReturns(a, b)
                    /\ Last(b.events).partial_content = a.full_response
             /\ YieldsCancelled(c) => is_set(a) /\ a.apc \in {"step_start", "streaming"}
             /\ (a.events # <<>> /\ Last(a.events).type = "cancelled") =>
                    b.events = a.events
             /\ (Len(b.events) > Len(a.events) /\ Last(b.events).type = "chunk") =>
                    ~is_set(a)]_vars

\* C7 witness: a loop that ran a tool, found the cancel event set at the start
\* of the next step and returned with a cancelled event without partial content
C7_Witness ==
    \E c \in Conns :
        /\ agents[c].apc = "returned"
        /\ agents[c].iteration > 0
        /\ is_set(agents[c])
        /\ Last(agents[c].events).type = "cancelled"
        /\ Last(agents[c].events).partial_content = "None"

\* a loop that returned with a cancelled event yielded during the stream, which
\* carries the text streamed in the step, after a chunk event
CancelledDuringStream ==
    \E c \in Conns :
        /\ agents[c].apc = "returned"
        /\ Len(agents[c].events) > 1
        /\ Last(agents[c].events).type = "cancelled"
        /\ Last(agents[c].events).partial_content = agents[c].full_response
        /\ agents[c].full_response # ""

\* C8: a turn during which the client disconnected is not abandoned: its loop
\* runs to its end and the handler saves the message unless the loop failed.
C8_DisconnectDoesNotEndLoop ==
    \A t \in turn_log :
        t.disconnected =>
            /\ t.outcome # "abandoned"
            /\ (t.outcome = "saved" => SavedFor(t) # {})

\* the events of the last orchestrator call include one of the given type for m
Emitted(es, type, m) == \E i \in DOMAIN es : es[i] = Event(type, m)

\* C11: when complete_streaming fails with a persistence error for a message
\* that has a row, the row is left with is_complete = false and error metadata,
\* PERSIST_FAILURE is emitted and PERSIST_SUCCESS is not.
C11_FailedFinalizeLeavesIncomplete ==
    [][\A m \in MsgIds :
          (m \in DOMAIN db_session /\ Emitted(last_emitted', "PERSIST_START", m)
             /\ ~Emitted(last_emitted', "END", m)) =>
               /\ Emitted(last_emitted', "PERSIST_FAILURE", m)
               /\ ~Emitted(last_emitted', "PERSIST_SUCCESS", m)
               /\ m \in DOMAIN db_session'
               /\ ~db_session'[m].is_complete
               /\ db_session'[m].metadata.error = "Streaming interrupted"]_vars

\* the types of the frames delivered on connection c for turn n, in order
FrameTypes(c, n) ==
    LET of_turn == SelectSeq(sockets[c].frames, LAMBDA f : f.turn = n)
    IN [i \in DOMAIN of_turn |-> of_turn[i].type]

\* the last k entries of seq are tail
EndsWith(seq, tail) ==
    /\ Len(seq) >= Len(tail)
    /\ SubSeq(seq, Len(seq) - Len(tail) + 1, Len(seq)) = tail

Rank(type) ==
    CASE type = "chunk" -> 0
      [] type = "action" -> 1
      [] type = "observation" -> 2
      [] OTHER -> 3

\* the events of step n in the log e
OfStep(e, type, n) == {i \in DOMAIN e : e[i].type = type /\ e[i].step = n}

\* C13: in the events a run yields, the text chunks of a step come before the
\* action of the step, the action before its observation, and the observation
\* of a step before every event of the next step.
C13_EventsInOrder ==
    \A c \in Conns :
        LET e == agents[c].events
        IN /\ \A i, j \in DOMAIN e :
                 i < j =>
                    /\ e[i].step <= e[j].step
                    /\ e[i].step = e[j].step => Rank(e[i].type) <= Rank(e[j].type)
           /\ \A n \in 1..DefaultMaxIterations :
                 /\ Cardinality(OfStep(e, "action", n)) <= 1
                 /\ Cardinality(OfStep(e, "observation", n)) <= 1
                 /\ OfStep(e, "observation", n) # {} => OfStep(e, "action", n) # {}
                 /\ (agents[c].apc # "idle" /\ n <= agents[c].iteration) =>
                        OfStep(e, "observation", n) # {}

\* C13 witness: a run with a chunk, an action and an observation in its first
\* step and a chunk in its second
C13_Witness ==
    \E c \in Conns :
        LET e == agents[c].events
        IN /\ OfStep(e, "chunk", 1) # {}
           /\ OfStep(e, "action", 1) # {}
           /\ OfStep(e, "observation", 1) # {}
           /\ OfStep(e, "chunk", 2) # {}

\* the events the loop of connection c yields in this step
NewEvents(c) ==
    SubSeq(agents'[c].events, Len(agents[c].events) + 1, Len(agents'[c].events))

\* the call of the tool ends in this step of the loop of connection c
ToolCallEnds(c) == agents[c].apc = "tool" /\ agents'[c].apc # "tool"

\* the step yields an observation and no error event
ObservationNoError(c) ==
    /\ \E i \in DOMAIN NewEvents(c) : NewEvents(c)[i].type = "observation"
    /\ \A i \in DOMAIN NewEvents(c) : NewEvents(c)[i].type # "error"

\* C14: whenever the call of a tool with well-formed arguments ends, with a
\* failure or not, the loop yields an observation (success false for a
\* failure) and no error event, and goes on to the next step unless this was
\* the last one: a tool failure never ends the run.
C14_ToolFailureIsData ==
    [][\A c \in Conns :
          (ToolCallEnds(c) /\ ~JSONDecodeError(agents[c].function_args)) =>
             /\ ObservationNoError(c)
             /\ agents'[c].apc = IF agents'[c].iteration < agents[c].max_iterations
                                 THEN "step_start" ELSE "returned"]_vars

\* C15: when the accumulated argument string of a step is malformed JSON, the
\* action of the step carries empty arguments, and the call of the tool yields
\* an observation and no error event.
C15_MalformedArgsContinue ==
    [][\A c \in Conns :
          (ToolCallEnds(c) /\ JSONDecodeError(agents[c].function_args)) =>
             /\ Last(agents[c].events).type = "action"
             /\ Last(agents[c].events).args = {}
             /\ ObservationNoError(c)]_vars

\* the types of the frames the handler sent in turn n of connection c, without
\* the acknowledgements of cancel frames
TurnFrames(c, n) == SelectSeq(FrameTypes(c, n), LAMBDA type : type # "cancel_acknowledged")

\* C16: a turn whose loop ended with an error event, as after a failure of the
\* LLM stream, has exactly one error event, its loop has returned, no assistant
\* message is saved for it, and a client that is still there gets error and
\* then end{error:true} as the last frames of the turn.
C16_StreamFailureEndsTurn ==
    \A t \in turn_log :
        t.last_event = "error" =>
            /\ t.error_events = 1
            /\ t.loop_returned
            /\ SavedFor(t) = {}
            /\ t.outcome \in {"error", "abandoned"}
            /\ (t.outcome = "error" /\ ~sockets[t.conn].client_gone) =>
                   EndsWith(TurnFrames(t.conn, t.turn), <<"error", "end_error">>)

\* C16 witness: a turn ended by the error event of a failed LLM stream, after a
\* chunk was sent, with error and end{error:true} delivered
C16_Witness ==
    \E t \in turn_log :
        /\ t.last_event = "error"
        /\ t.last_content = "Agent error"
        /\ t.outcome = "error"
        /\ EndsWith(TurnFrames(t.conn, t.turn), <<"chunk", "error", "end_error">>)

\* the user messages of the store, and whether the turn of one is still between
\* its start and the saving or skipping of its assistant message
UserMessages == {i \in DOMAIN chat_messages : chat_messages[i].role = "user"}
TurnOpen(i) ==
    /\ handlers[chat_messages[i].conn].hpc = "turn"
    /\ turns[chat_messages[i].conn].turn_no = chat_messages[i].turn

\* C17: the turns of one session are in strict causal order: while the turn of
\* a user message is still open (its assistant message neither saved nor given
\* up as cancelled), no later user message of the same session is in the store,
\* so the processing of message N+1 never started before turn N was over.
C17_TurnsInCausalOrder ==
    \A i, j \in UserMessages :
        (i < j /\ chat_messages[i].chat_session_id = chat_messages[j].chat_session_id)
            => ~TurnOpen(i)

\* the offsets at which sub occurs in str, and whether sub occurs in str at all
Occurrences(str, sub) ==
    {i \in 0..(Len(str) - Len(sub)) : SubSeq(str, i + 1, i + Len(sub)) = sub}
Contains(str, sub) == Occurrences(str, sub) # {}

\* str with the occurrence of old at offset i replaced by new
ReplacedAt(str, i, old, new) ==
    SubSeq(str, 1, i) \o new \o SubSeq(str, i + Len(old) + 1, Len(str))

ContentNotFound == "Content to replace not found in file"
SeveralOccurrences == "Content appears multiple times in file"

\* file_edit was called twice, without a fault of the container, on a file that
\* held the old content exactly once before the first call
EditedTwice ==
    /\ Len(edit_results) >= 2
    /\ edit_results[1].fault = "ok" /\ edit_results[2].fault = "ok"
    /\ edit_input.path = EditedPath
    /\ Cardinality(Occurrences(edit_results[1].before[EditedPath].content,
                               edit_input.old_content)) = 1

SecondEditIdempotent == edit_results[2].after = edit_results[1].after
NewContainsOld == Contains(edit_input.new_content, edit_input.old_content)

\* C18 as stated: file_edit applied twice with the same inputs to a file that
\* contains old exactly once is idempotent if and only if new does not contain
\* old, and otherwise the second application fails with content-not-found.
C18_IdempotentIffNewLacksOld ==
    EditedTwice =>
        /\ SecondEditIdempotent <=> ~NewContainsOld
        /\ NewContainsOld => edit_results[2].result = ToolResult(FALSE, ContentNotFound)

\* C18: file_edit is applied twice with the same inputs to a file that contains
\* old exactly once.  The first application succeeds.  The second one fails
\* with content-not-found exactly when the edited file no longer contains old,
\* it then leaves the file as the first left it, and this only happens when new
\* does not contain old.  When new contains old the second application either
\* succeeds again or fails because old occurs several times.
C18_SecondEditFollowsEditedFile ==
    EditedTwice =>
        LET edited == edit_results[1].after[EditedPath].content
            second == edit_results[2].result
        IN /\ edit_results[1].result.success
           /\ second = ToolResult(FALSE, ContentNotFound)
                 <=> ~Contains(edited, edit_input.old_content)
           /\ second = ToolResult(FALSE, ContentNotFound)
                 => SecondEditIdempotent /\ ~NewContainsOld
           /\ NewContainsOld
                 => second.success \/ second = ToolResult(FALSE, SeveralOccurrences)

\* C18 witness: new does not contain old, and yet the second application
\* succeeds and changes the file again, as the first edit made a new occurrence
\* of old out of new and its surroundings
C18_Witness ==
    /\ EditedTwice
    /\ ~NewContainsOld
    /\ edit_results[2].result.success
    /\ ~SecondEditIdempotent

\* C19: file_edit succeeds only when old_content occurs exactly once in the
\* file, and then the file holds its old content with exactly that occurrence
\* replaced; when old_content occurs zero times or more than once, or the path
\* is invalid or the file is missing, the result is a failure and no file has
\* changed.
C19_EditsTheOnlyOccurrence ==
    \A n \in DOMAIN edit_results :
        LET call == edit_results[n]
            path == edit_input.path
            present == path \in ContainerPaths /\ call.before[path].exists
            found == IF present
                     THEN Occurrences(call.before[path].content, edit_input.old_content)
                     ELSE {}
        IN /\ call.result.success =>
                 /\ present
                 /\ Cardinality(found) = 1
                 /\ \A i \in found :
                       call.after = [call.before EXCEPT ![path] =
                                        File(ReplacedAt(call.before[path].content, i,
                                                        edit_input.old_content,
                                                        edit_input.new_content))]
           /\ (~present \/ Cardinality(found) # 1) =>
                 ~call.result.success /\ call.after = call.before

\* C20: in every turn with an agent loop the tool registry contains
\* setup_environment if and only if the session had no environment type when
\* the turn began; with an environment type it holds only sandbox tools that are
\* enabled; and after a turn of a session that had an environment, every later
\* turn of the session has one too and is without setup_environment.
C20_SetupOnlyWithoutEnvironment ==
    /\ \A n \in DOMAIN tool_registries :
          LET turn == tool_registries[n]
          IN turn.use_agent =>
                /\ "setup_environment" \in turn.tools <=> turn.environment_type = "None"
                /\ turn.environment_type # "None" =>
                      turn.tools \subseteq (OperationalTools \cap enabled_tools)
    /\ \A i, j \in DOMAIN tool_registries :
          LET earlier == tool_registries[i]
              later == tool_registries[j]
          IN (i < j /\ earlier.session_id = later.session_id
                    /\ earlier.environment_type # "None") =>
                /\ later.environment_type # "None"
                /\ "setup_environment" \notin later.tools

\* C20 witness: a session whose first turn had only setup_environment and set
\* up the environment, and whose next turn has the enabled sandbox tools, while
\* a tool that is enabled but is no sandbox tool is not registered
C20_Witness ==
    \E i, j \in DOMAIN tool_registries :
        /\ i < j
        /\ tool_registries[i].session_id = tool_registries[j].session_id
        /\ tool_registries[i].tools = {"setup_environment"}
        /\ tool_registries[j].environment_type = "nodejs"
        /\ tool_registries[j].tools = {"bash", "file_edit"}
        /\ "ast_grep" \in enabled_tools

\* the entries of the dispatch log at which a handler was started for event n
Started(n) == {i \in DOMAIN dispatch_log :
                  dispatch_log[i].n = n /\ dispatch_log[i].what = "started"}

\* every handler that was subscribed to event n when it was emitted was started for it
Dispatched(n) ==
    /\ n \in DOMAIN event_history
    /\ \A handler \in event_history[n].subscribed :
          \E i \in Started(n) : dispatch_log[i].handler = handler

\* C21: the handlers of an event are invoked in non-increasing priority order,
\* and although handlers raise, every emitted event is dispatched to each of the
\* handlers subscribed to it: the rest of the handlers of the event and the
\* events queued behind it are not lost.
C21_DispatchSurvivesFailures ==
    /\ [](\A n \in DOMAIN event_history : \A i, j \in Started(n) :
              i < j => dispatch_log[i].priority >= dispatch_log[j].priority)
    /\ \A n \in 1..MaxEmits : (Len(event_history) >= n) ~> Dispatched(n)

\* C22: the chunks of a message reach the handlers in strict FIFO order of
\* emission: no handler is started for a chunk event while a handler started
\* for an earlier chunk event has not ended.
C22_ChunksDispatchedFifo ==
    \A i, j \in DOMAIN dispatch_log :
        (/\ i < j
         /\ dispatch_log[i].what = "started" /\ dispatch_log[j].what = "started"
         /\ dispatch_log[i].n < dispatch_log[j].n
         /\ event_history[dispatch_log[i].n].event_data.event_type = "streaming.chunk"
         /\ event_history[dispatch_log[j].n].event_data.event_type = "streaming.chunk")
            => \E k \in (i + 1)..(j - 1) :
                  /\ dispatch_log[k].n = dispatch_log[i].n
                  /\ dispatch_log[k].handler = dispatch_log[i].handler
                  /\ dispatch_log[k].what \in {"returned", "raised"}

\* C23: whatever the configured limit, the buffer of a message never holds more
\* chunks than the limit, and what it holds are the most recent chunks of the
\* message in the order in which they were appended.
C23_BufferWithinLimit ==
    \A m \in DOMAIN buffers :
        /\ Len(buffers[m]) <= max_buffer_size
        /\ Len(buffers[m]) <= Len(chunk_events[m])
        /\ buffers[m] = LastN(chunk_events[m], Len(buffers[m]))

\* a step of cleanup_old_tasks that removed an entry or returned a new value
CleanupOldTasksStep ==
    /\ reg_returned'.call = "cleanup_old_tasks"
    /\ <<reg_tasks, reg_returned>>' # <<reg_tasks, reg_returned>>

\* the sessions whose entry is gone after the step
Removed == {s \in Sessions : reg_tasks[s] # NoTask /\ reg_tasks'[s] = NoTask}

\* C24: cleanup_old_tasks(max_age_seconds) removes exactly the entries whose task
\* is done and whose age exceeds max_age_seconds and returns their number; an
\* entry whose task is not done or whose age is within the threshold stays, and
\* all other entries and the tasks themselves are unchanged.
C24_GcRemovesDoneAndOld ==
    [][CleanupOldTasksStep =>
          /\ Removed = {s \in Sessions :
                           /\ reg_tasks[s] # NoTask
                           /\ handles[reg_tasks[s].task].state = "done"
                           /\ clock - reg_tasks[s].created_at > reg_returned'.max_age_seconds}
          /\ reg_returned'.value = Cardinality(Removed)
          /\ \A s \in Sessions \ Removed : reg_tasks'[s] = reg_tasks[s]
          /\ UNCHANGED <<handles, cancel_events, clock>>]_vars

\* C24 witness: cleanup_old_tasks has just removed one entry and has left the
\* entry of a task that is as old but still running
C24_Witness ==
    /\ reg_returned.call = "cleanup_old_tasks"
    /\ reg_returned.value = 1
    /\ \E s \in Sessions :
          /\ reg_tasks[s] # NoTask
          /\ handles[reg_tasks[s].task].state = "pending"
          /\ clock - reg_tasks[s].created_at > reg_returned.max_age_seconds

\* C25: no ghost tasks: the registry entry of a task that is done does not have
\* status running.
C25_NoGhostTasks ==
    \A s \in Sessions :
        (reg_tasks[s] # NoTask /\ TaskDone(reg_tasks[s].task))
            => reg_tasks[s].status # "running"

\* the handler of connection c takes a cancel frame from its socket
HandlesCancel(c) ==
    /\ sockets[c].inbox # <<>>
    /\ Head(sockets[c].inbox).type = "cancel"
    /\ sockets'[c].inbox = Tail(sockets[c].inbox)

\* a cancel frame of connection c has been handled before
CancelledBefore(c) ==
    \E i \in DOMAIN sockets[c].frames : sockets[c].frames[i].type = "cancel_acknowledged"

\* C26: cancellation is idempotent: handling a second cancel frame of a
\* connection leaves the cancel signal and the frames sent to the client as they
\* were after the first one.
C26_SecondCancelChangesNothing ==
    [][\A c \in Conns :
          (HandlesCancel(c) /\ CancelledBefore(c)) =>
              /\ sockets'[c].frames = sockets[c].frames
              /\ agents'[c].cancel_event = agents[c].cancel_event]_vars

\* the step is a finalize (complete_streaming or cancel_streaming) of message m
Finalizes(m) == last_emitted' # <<>> /\ Head(last_emitted') = Event("PERSIST_START", m)

\* the step writes the message store: the rows of the session or the committed rows
StoreWritten == <<db_session, db_committed>>' # <<db_session, db_committed>>

\* C27: the message store is written only at finalize: every step that writes
\* it is the finalize of a message, so that opening a message and processing its
\* chunks, actions and observations write nothing, and a finalize writes only
\* the row of its own message.
C27_StoreWrittenOnlyAtFinalize ==
    [][StoreWritten =>
          \E m \in MsgIds :
              /\ Finalizes(m)
              /\ \A o \in (DOMAIN db_session \cup DOMAIN db_session') \ {m} :
                     /\ o \in DOMAIN db_session /\ o \in DOMAIN db_session'
                     /\ db_session'[o] = db_session[o]]_vars

\* the step deletes the existing project p
DeletesProject(p) == projects[p] # NoProject /\ projects'[p] = NoProject

\* C28: deleting an existing project destroys the sandbox container of every
\* chat session of the project, deletes the volume and the files of the project,
\* and removes the project with its sessions; the call succeeds with 204.
C28_DeleteCleansUp ==
    [][\A p \in ProjectIds :
          (projects[p] # NoProject /\ response'.route = "delete_project"
             /\ response'.project_id = p /\ response' # response) =>
              /\ DeletesProject(p)
              /\ response'.status_code = 204
              /\ SessionsOf(p)' = {}
              /\ containers' \cap SessionsOf(p) = {}
              /\ p \notin volumes'
              /\ p \notin project_directories']_vars

\* C29: every project has exactly one agent configuration, and every agent
\* configuration belongs to a project that exists.
C29_OneConfigurationPerProject ==
    /\ \A p \in ProjectIds :
          projects[p] # NoProject => Cardinality(ConfigsOf(p)) = 1
    /\ \A config \in agent_configurations :
          config.project_id \in ProjectIds /\ projects[config.project_id] # NoProject

\* C29 witness: one project has been deleted, and a template has been applied
\* to the configuration of another that is still there
C29_Witness ==
    /\ \E p \in ProjectIds : projects[p] = NoProject /\ next_id.project >= p
    /\ \E p \in ProjectIds :
          /\ projects[p] # NoProject
          /\ \E config \in ConfigsOf(p) : config.agent_type = "python_dev"

Statements(r) == [i \in DOMAIN r |-> r[i].statement]

\* the run ends in the state after the step
EndsInNextState(r) ==
    LET end == r[Len(r)]
    IN /\ end.buffers = buffers'
       /\ end.stream_metadata = stream_metadata'
       /\ end.active_streams = active_streams'
       /\ end.db_session = db_session'
       /\ end.db_committed = db_committed'
       /\ end.emitted = last_emitted'

\* message m is saved in full and committed in snapshot x, for the content c
SavedIn(x, m, c) ==
    /\ m \in DOMAIN x.db_committed
    /\ x.db_committed[m].is_complete
    /\ x.db_committed[m].content = c

\* C31: a successful finalize of an open stream runs its steps in this order: PERSIST_START is
\* emitted, the full buffered content is saved with is_complete and committed,
\* the message is read back, the buffer is removed, the stream leaves the
\* active set, PERSIST_SUCCESS is emitted and then END; the buffer is there
\* until the message has been saved.
C31_FinalizeOrder ==
    [][\A m \in MsgIds :
          (m \in DOMAIN buffers /\ Emitted(last_emitted', "END", m)) =>
             \E cancelled \in BOOLEAN :
                LET r == complete_streaming_statements(m, cancelled, "ok", "ok")
                IN /\ EndsInNextState(r)
                   /\ Statements(r) = <<"buffer.end_streaming", "emit PERSIST_START",
                                        "persistence.save_complete_message",
                                        "persistence.get_message", "buffer.cleanup",
                                        "active_streams.pop", "emit PERSIST_SUCCESS",
                                        "emit END">>
                   /\ \A i \in DOMAIN r :
                         /\ (m \notin DOMAIN r[i].buffers \/ m \notin DOMAIN r[i].active_streams
                               \/ Emitted(r[i].emitted, "PERSIST_SUCCESS", m))
                               => SavedIn(r[i], m, get_complete_content(m))
                         /\ ~Emitted(r[i].emitted, "PERSIST_START", m)
                               => /\ r[i].db_session = db_session
                                  /\ r[i].db_committed = db_committed]_vars

\* C31 witness: a message with buffered content has been finalized with success
C31_Witness ==
    \E m \in MsgIds :
        /\ Emitted(last_emitted, "END", m)
        /\ PersistedComplete(m)
        /\ db_committed[m].content # ""
        /\ m \notin DOMAIN buffers

\* the loop of connection c takes a function_call delta from the stream
TakesFunctionCall(c) ==
    /\ agents[c].apc = "streaming" /\ agents'[c].apc = "streaming"
    /\ agents'[c].stream_items = agents[c].stream_items + 1
    /\ agents'[c].events = agents[c].events

\* C32: within one step the tool name is the name of the first function_call
\* delta that carries one: a later delta, with or without a name, does not
\* change it; the argument string is the concatenation of the fragments in
\* the order of arrival.
C32_FirstNameKept ==
    [][\A c \in Conns :
          TakesFunctionCall(c) =>
              /\ agents[c].function_name # "None"
                    => agents'[c].function_name = agents[c].function_name
              /\ \E function_call \in FunctionCallChunks :
                    /\ agents'[c].function_args =
                          agents[c].function_args \o function_call.arguments
                    /\ agents[c].function_name = "None"
                          => agents'[c].function_name = function_call.name]_vars

\* the stream of the step of connection c closes: the loop leaves the async for
\* without an exception and without a cancellation
StreamCloses(c) ==
    LET a == agents[c]
        b == agents'[c]
    IN /\ a.apc = "streaming" /\ b.apc # "streaming"
       /\ b.stream_items = a.stream_items
       /\ ~(Len(b.events) > Len(a.events) /\ Last(b.events).content = "Agent error")

\* C33: when the stream of a step closes without a call of a registered tool,
\* the loop returns: with no further event when the response text is not empty,
\* with the error 'Agent did not provide a response' when it is empty, also
\* when an unregistered tool was named; and a loop that has returned takes no
\* further step.
C33_NoToolCallEndsLoop ==
    [][\A c \in Conns :
          LET a == agents[c]
              b == agents'[c]
          IN /\ (StreamCloses(c) /\ ~(a.function_name # "None" /\ has_tool(a.function_name))) =>
                    /\ b.apc = "returned"
                    /\ b.tool_runs = a.tool_runs /\ b.iteration = a.iteration
                    /\ IF a.full_response # ""
                       THEN b.events = a.events
                       ELSE b.events = Append(a.events,
                               AgentEvent("error", "Agent did not provide a response",
                                          a.iteration + 1))
             /\ a.apc = "returned" => b = a]_vars

\* C33 witness: the model named an unregistered tool and sent no text, and the
\* loop has returned with the error
C33_Witness ==
    \E c \in Conns :
        /\ agents[c].apc = "returned"
        /\ agents[c].function_name = "nope"
        /\ agents[c].full_response = ""
        /\ agents[c].events # <<>>
        /\ Last(agents[c].events).content = "Agent did not provide a response"

\* C34: a tool invocation does not block the loop forever: a loop that awaits
\* tool.execute eventually goes on, with the observation of the tool or, for a
\* tool that does not return, with the failed observation of a timeout.
C34_ToolCallEnds ==
    \A c \in Conns : (agents[c].apc = "tool") ~> (agents[c].apc # "tool")

\* C35: for a live message get_chunks_since(index) is the list of the chunks
\* appended at position index or later, in the order of the appends: a client
\* that has seen the first index chunks gets every later chunk once and none of
\* the earlier ones.
C35_ChunksSinceIndex ==
    \A m \in DOMAIN buffers, index \in 0..MaxResumeIndex :
        index <= Len(chunk_events[m]) =>
            get_chunks_since(m, index) =
                SubSeq(chunk_events[m], index + 1, Len(chunk_events[m]))

\* the number of subscriptions of the handler to the tag of event n
SubscriptionsOf(n, handler) ==
    LET list == subscribers[event_history[n].event_data.event_type]
    IN Cardinality({i \in DOMAIN list : list[i].handler = handler})

\* the number of entries of the dispatch log for event n and the handler
Invocations(n, handler, what) ==
    Cardinality({i \in DOMAIN dispatch_log :
                    /\ dispatch_log[i].n = n /\ dispatch_log[i].handler = handler
                    /\ dispatch_log[i].what \in what})

\* event n has been dispatched once to each subscription, and each handler ended
DispatchedOnce(n) ==
    /\ n \in DOMAIN event_history
    /\ \A handler \in Handlers :
          /\ Invocations(n, handler, {"started"}) = SubscriptionsOf(n, handler)
          /\ Invocations(n, handler, {"returned", "raised"}) = SubscriptionsOf(n, handler)

C37_CallbackInvokedOnce ==
    \A i, j \in DOMAIN callback_log :
        callback_log[i].callback = callback_log[j].callback => i = j

\* C38: the cleanup callback is never invoked for a stream that was marked
\* finalized before the callback starts.
C38_NoCallbackAfterFinalized ==
    \A i \in DOMAIN callback_log : ~callback_log[i].finalized

\* the callbacks whose cleanup ends in this step
CleanupEnds ==
    {cleanup_tasks.disconnect[s].callback : s \in
        {t \in Sessions : /\ cleanup_tasks.disconnect[t].pc = "callback"
                          /\ cleanup_tasks'.disconnect[t].pc = "done"}}
    \cup (IF /\ cleanup_tasks.worker.pc = "callback"
             /\ cleanup_tasks'.worker # cleanup_tasks.worker
          THEN {cleanup_tasks.worker.callback} ELSE {})

\* C39: a registered stream stays tracked with its own cleanup callback until
\* it is finalized or cleaned up itself: an entry that is not finalized leaves
\* the tracking, or loses its callback, only when a later register_stream
\* replaces it or when the cleanup of its own callback ends.
C39_StreamStaysTracked ==
    [][\A s \in Sessions :
          (/\ Tracked(manager_streams, s)
           /\ ~InfoOf(manager_streams, s).finalized
           /\ registrations' = registrations
           /\ \/ ~Tracked(manager_streams', s)
              \/ cleanup_callbacks'[s] # InfoOf(manager_streams, s).message_id)
          => InfoOf(manager_streams, s).message_id \in CleanupEnds]_vars

EndFrames == {"end_message", "end_error", "end_cancelled"}

\* the positions of the frames of the given types that connection c got in turn t
FramesIn(c, t, types) ==
    {i \in DOMAIN sockets[c].frames :
        sockets[c].frames[i].turn = t /\ sockets[c].frames[i].type \in types}

\* C40: every start frame sent to a client is eventually followed by exactly
\* one end frame of that turn, whether the turn completes, is cancelled or
\* fails, and no chunk, action or observation frame of a turn is sent before
\* its start or after its end.
C40_StartThenOneEnd ==
    /\ [](\A c \in Conns, t \in 1..MaxClientFrames :
            /\ Cardinality(FramesIn(c, t, EndFrames)) <= 1
            /\ \A i \in FramesIn(c, t, {"chunk", "action", "observation"}) :
                  /\ \E j \in FramesIn(c, t, {"start"}) : j < i
                  /\ \A j \in FramesIn(c, t, EndFrames) : i < j)
    /\ \A c \in Conns, t \in 1..MaxClientFrames :
          (FramesIn(c, t, {"start"}) # {})
             ~> (FramesIn(c, t, EndFrames) # {} \/ sockets[c].client_gone)

====
